---- MODULE Spec2Model ----
(***************************************************************************)
(* advent-of-code-2023 (src/advent_of_code_2023).                          *)
(*                                                                         *)
(* Day 5 (day_5/seeds.py): the almanac parser (get_seeds, get_seed_range,  *)
(* build_map), the forward lookup get_seed_location_lookup and the reverse *)
(* scan reverse_map_to_min_location.                                       *)
(* Day 8 (day_8/haunted_wastelands.py): number_camel_steps.                *)
(* Day 6 (day_6/boat_race.py): the two counts of winning button presses.   *)
(* Day 4 (day_4/scratch_card.py): calculate_number_of_cards.               *)
(* Day 10 (day_10/pipe_maze.py): max_maze_distance.                        *)
(* Day 11 (day_11/cosmic_expansion.py): the two totals of galaxy           *)
(* distances.                                                              *)
(*                                                                         *)
(* A text line is a sequence of pieces: every decimal digit is a piece of  *)
(* its own ("0" .. "9") and every maximal run of other characters is one   *)
(* piece, so the empty line is <<>> and a header line is <<header>>.       *)
(* Python indices are 0-based: lines[idx] is written lines[idx + 1].       *)
(***************************************************************************)
EXTENDS Integers, Sequences, FiniteSets, TLC

VARIABLES
    lines,                 \* the input almanac (argument of both functions)
    call,                  \* the function that was called
    pc,                    \* position in the called function
    raised,                \* the exception that ended the call, "" if none
    message,               \* the message of that exception, in pieces
    seeds,                 \* get_seed_location_lookup: seeds
    seed_ranges,           \* reverse_map_to_min_location: seed_ranges
    maps,                  \* the dict maps, as its items in insertion order
    seed_i,                \* position of `for seed in seeds`
    map_i,                 \* position of the loop over map_names / maps.items()
    previous,              \* previous
    current,               \* current
    back,                  \* result of reverse-translating current (round trip)
    seed_location_lookup,  \* the dict seed_location_lookup
    location,              \* location
    not_in_seeds,          \* not_in_seeds
    commands,              \* day 8: commands
    direction_map,         \* day 8: the dict direction_map, as a function
    node,                  \* day 8: node
    num_steps,             \* day 8: num_steps
    command_i,             \* day 8: position of `for command in commands`
    single_race,           \* day 6: the argument single_race
    broken_records,        \* day 6: the dict broken_records, as a function
    matching_nums,         \* day 4: matching_nums, as its items in order
    counts,                \* day 4: the defaultdict counts, as a function
    copies_ids,            \* day 4: copies_ids
    card_i,                \* day 4: position of the loop over matching_nums
    copy_i,                \* day 4: position of `for copy_id in copies_ids`
    maze_i,                \* day 10: i
    maze_j,                \* day 10: j
    direction,             \* day 10: direction
    maze_route,            \* day 10: maze_route
    num_moves,             \* day 10: num_moves
    distance,              \* day 10: the distance returned, ceil(num_moves / 2)
    expansion_factor,      \* day 11: the argument expansion_factor
    total                  \* day 11: total

\* the variables of one day's functions
day_5 == <<seeds, seed_ranges, maps, seed_i, map_i, previous, current, back,
           seed_location_lookup, location, not_in_seeds>>
day_8 == <<commands, direction_map, node, num_steps, command_i>>
day_6 == <<single_race, broken_records>>
day_4 == <<matching_nums, counts, copies_ids, card_i, copy_i>>
day_10 == <<maze_i, maze_j, direction, maze_route, num_moves, distance>>
day_11 == <<expansion_factor, total>>

\* the variables of the days other than day 5
other_days == <<day_8, day_6, day_4, day_10, day_11>>

vars == <<lines, call, pc, raised, message, seeds, seed_ranges, maps, seed_i, map_i,
          previous, current, back, seed_location_lookup, location, not_in_seeds,
          other_days>>

\* the variables of a day whose functions are not called
Day5Idle ==
    /\ seeds = <<>>
    /\ seed_ranges = <<>>
    /\ maps = <<>>
    /\ seed_i = 0
    /\ map_i = 0
    /\ previous = 0
    /\ current = <<>>
    /\ back = <<>>
    /\ seed_location_lookup = <<>>
    /\ location = 0
    /\ not_in_seeds = TRUE

Day8Idle ==
    /\ commands = <<>>
    /\ direction_map = <<>>
    /\ node = ""
    /\ num_steps = 0
    /\ command_i = 0

Day6Idle ==
    /\ single_race = FALSE
    /\ broken_records = <<>>

Day4Idle ==
    /\ matching_nums = <<>>
    /\ counts = <<>>
    /\ copies_ids = <<>>
    /\ card_i = 0
    /\ copy_i = 0

Day10Idle ==
    /\ maze_i = 0
    /\ maze_j = 0
    /\ direction = ""
    /\ maze_route = <<>>
    /\ num_moves = 0
    /\ distance = 0

Day11Idle ==
    /\ expansion_factor = 0
    /\ total = 0

OtherDaysIdle == Day8Idle /\ Day6Idle /\ Day4Idle /\ Day10Idle /\ Day11Idle

-----------------------------------------------------------------------------
(* Bounds of the checked inputs *)

\* largest dest and src number of a drawn rule line, largest seed start
MaxNum == 1
\* largest len number of a drawn rule line, largest seed range length
MaxLen == 2
\* largest number of rule lines of the table drawn for the single-table runs
MaxRules == 2
\* the scan of reverse_map_to_min_location is followed up to this many
\* locations past twice the largest number of the almanac
ScanSlack == 1

-----------------------------------------------------------------------------
(* Strings *)

Digit == {"0", "1", "2", "3", "4", "5", "6", "7", "8", "9"}

DigitValue(c) ==
    CASE c = "0" -> 0 [] c = "1" -> 1 [] c = "2" -> 2 [] c = "3" -> 3
      [] c = "4" -> 4 [] c = "5" -> 5 [] c = "6" -> 6 [] c = "7" -> 7
      [] c = "8" -> 8 [] c = "9" -> 9

\* int(s) of a run of digits
RECURSIVE int(_)
int(s) ==
    IF s = <<>> THEN 0
    ELSE 10 * int(SubSeq(s, 1, Len(s) - 1)) + DigitValue(s[Len(s)])

\* [int(m.group()) for m in re.finditer("[0-9]+", s)]: the maximal digit runs
\* of s from left to right, each converted by int
RECURSIVE finditer_ints(_, _, _, _)
finditer_ints(s, i, run, acc) ==
    IF i > Len(s)
    THEN IF run = <<>> THEN acc ELSE Append(acc, int(run))
    ELSE IF s[i] \in Digit
         THEN finditer_ints(s, i + 1, Append(run, s[i]), acc)
         ELSE finditer_ints(s, i + 1, <<>>,
                            IF run = <<>> THEN acc ELSE Append(acc, int(run)))

DigitChar == << "0", "1", "2", "3", "4", "5", "6", "7", "8", "9" >>

\* the decimal text of n (str(n), and a number as the input writes it), one
\* piece per digit
RECURSIVE decimal(_)
decimal(n) ==
    IF n < 10 THEN << DigitChar[n + 1] >>
    ELSE Append(decimal(n \div 10), DigitChar[(n % 10) + 1])

-----------------------------------------------------------------------------
(* Parsing the almanac *)

\* Faulty variant of map_names: the first two names exchanged.
map_names_exchanged ==
    << "soil-to-fertilizer map:",
       "seed-to-soil map:",
       "fertilizer-to-water map:",
       "water-to-light map:",
       "light-to-temperature map:",
       "temperature-to-humidity map:",
       "humidity-to-location map:" >>

map_names ==
    << "seed-to-soil map:",
       "soil-to-fertilizer map:",
       "fertilizer-to-water map:",
       "water-to-light map:",
       "light-to-temperature map:",
       "temperature-to-humidity map:",
       "humidity-to-location map:" >>

\* reversed(map_names)
reversed_map_names ==
    [i \in 1..Len(map_names) |-> map_names[Len(map_names) + 1 - i]]

get_seeds(seeds_line) == finditer_ints(seeds_line, 1, <<>>, <<>>)

\* What a call gives: exc = "" and the value returned, or the exception raised.
Returned(v) == [exc |-> "", msg |-> <<>>, value |-> v]
Raised(e, msg) == [exc |-> e, msg |-> msg, value |-> <<>>]

\* Faulty variant of limits_tuple: dest and src read in the wrong order.
limits_tuple_swapped(limits) ==
    << limits[1], limits[1] + limits[3] - 1, limits[2], limits[2] + limits[3] - 1 >>

\* Faulty variant of limits_tuple: max_destination computed from src.
limits_tuple_destination_end(limits) ==
    << limits[2], limits[2] + limits[3] - 1, limits[1], limits[2] + limits[3] - 1 >>

\* Faulty variant of limits_tuple: max_source is src + len.
limits_tuple_source_end(limits) ==
    << limits[2], limits[2] + limits[3], limits[1], limits[1] + limits[3] - 1 >>

\* the tuple appended for one rule line: (min_source, max_source,
\* min_destination, max_destination)
limits_tuple(limits) ==
    << limits[2], limits[2] + limits[3] - 1, limits[1], limits[1] + limits[3] - 1 >>

\* the while loop of build_map, from lines[idx] on
RECURSIVE build_map_loop(_, _, _, _)
build_map_loop(ls, map_name, idx, acc) ==
    IF idx >= Len(ls) THEN Raised("IndexError", << "list index out of range" >>)
    ELSE IF ls[idx + 1] = <<>> THEN Returned(acc)
    ELSE LET limits == finditer_ints(ls[idx + 1], 1, <<>>, <<>>) IN
         IF Len(limits) # 3
         THEN Raised("ValueError",
                  << "Unable to parse limits into 3 variables when building ",
                     map_name, " and lines index " >> \o decimal(idx))
         ELSE LET acc2 == Append(acc, limits_tuple(limits)) IN
              IF idx + 1 = Len(ls) THEN Returned(acc2)
              ELSE build_map_loop(ls, map_name, idx + 1, acc2)

\* Faulty variant of build_map: a missing header gives an empty table.
build_map_default(ls, map_name) ==
    IF \A i \in 1..Len(ls) : ls[i] # <<map_name>>
    THEN Returned(<<>>)
    ELSE LET first == CHOOSE i \in 1..Len(ls) :
                          /\ ls[i] = <<map_name>>
                          /\ \A j \in 1..(i - 1) : ls[j] # <<map_name>>
         IN build_map_loop(ls, map_name, first, <<>>)

\* Faulty variant of build_map: a line that does not hold three numbers is
\* skipped.
RECURSIVE build_map_loop_skipping(_, _, _, _)
build_map_loop_skipping(ls, map_name, idx, acc) ==
    IF idx >= Len(ls) THEN Raised("IndexError", << "list index out of range" >>)
    ELSE IF ls[idx + 1] = <<>> THEN Returned(acc)
    ELSE LET limits == finditer_ints(ls[idx + 1], 1, <<>>, <<>>)
             acc2 == IF Len(limits) # 3 THEN acc
                     ELSE Append(acc, limits_tuple(limits))
         IN IF idx + 1 = Len(ls) THEN Returned(acc2)
            ELSE build_map_loop_skipping(ls, map_name, idx + 1, acc2)

build_map_skipping(ls, map_name) ==
    IF \A i \in 1..Len(ls) : ls[i] # <<map_name>>
    THEN Raised("ValueError", << "Unable to find ", map_name, " in almanac." >>)
    ELSE LET first == CHOOSE i \in 1..Len(ls) :
                          /\ ls[i] = <<map_name>>
                          /\ \A j \in 1..(i - 1) : ls[j] # <<map_name>>
         IN build_map_loop_skipping(ls, map_name, first, <<>>)

build_map(ls, map_name) ==
    IF \A i \in 1..Len(ls) : ls[i] # <<map_name>>
    THEN Raised("ValueError", << "Unable to find ", map_name, " in almanac." >>)
    ELSE LET first == CHOOSE i \in 1..Len(ls) :
                          /\ ls[i] = <<map_name>>
                          /\ \A j \in 1..(i - 1) : ls[j] # <<map_name>>
         IN build_map_loop(ls, map_name, first, <<>>)

RECURSIVE seed_range_loop(_, _, _)
seed_range_loop(nums, i, ranges) ==
    IF i >= Len(nums) THEN Returned(ranges)
    ELSE IF i + 1 >= Len(nums)
         THEN Raised("IndexError", << "list index out of range" >>)
    ELSE seed_range_loop(nums, i + 2,
             Append(ranges, << nums[i + 1], nums[i + 1] + nums[i + 2] - 1 >>))

\* Faulty variant of get_seed_range: a trailing number without a partner is
\* dropped (the loop runs over range(0, len(nums) - 1, 2)).
RECURSIVE seed_range_loop_dropping(_, _, _)
seed_range_loop_dropping(nums, i, ranges) ==
    IF i + 1 >= Len(nums) THEN Returned(ranges)
    ELSE seed_range_loop_dropping(nums, i + 2,
             Append(ranges, << nums[i + 1], nums[i + 1] + nums[i + 2] - 1 >>))

get_seed_range_dropping(seed_line) ==
    seed_range_loop_dropping(get_seeds(seed_line), 0, <<>>)

\* Faulty variant of get_seed_range: the upper bound is start + length.
RECURSIVE seed_range_loop_long(_, _, _)
seed_range_loop_long(nums, i, ranges) ==
    IF i >= Len(nums) THEN Returned(ranges)
    ELSE IF i + 1 >= Len(nums)
         THEN Raised("IndexError", << "list index out of range" >>)
    ELSE seed_range_loop_long(nums, i + 2,
             Append(ranges, << nums[i + 1], nums[i + 1] + nums[i + 2] >>))

get_seed_range_long(seed_line) ==
    seed_range_loop_long(get_seeds(seed_line), 0, <<>>)

get_seed_range(seed_line) == seed_range_loop(get_seeds(seed_line), 0, <<>>)

-----------------------------------------------------------------------------
(* Translating a value through one table *)

\* the loop `for map_limits in map_limits_list` of get_seed_location_lookup
\* from rule i on: <<current>> at the break, <<>> when current stays None
RECURSIVE forward_match(_, _, _)
forward_match(map_limits_list, i, prev) ==
    IF i > Len(map_limits_list) THEN <<>>
    ELSE LET map_limits == map_limits_list[i] IN
         IF prev >= map_limits[1] /\ prev <= map_limits[2]
         THEN << map_limits[3] + (prev - map_limits[1]) >>
         ELSE forward_match(map_limits_list, i + 1, prev)

\* Faulty variant of forward_translate: the loop has no break, so the last
\* rule whose source range holds prev decides.
RECURSIVE forward_match_last(_, _, _, _)
forward_match_last(map_limits_list, i, prev, cur) ==
    IF i > Len(map_limits_list) THEN cur
    ELSE LET map_limits == map_limits_list[i] IN
         forward_match_last(map_limits_list, i + 1, prev,
             IF prev >= map_limits[1] /\ prev <= map_limits[2]
             THEN map_limits[3] + (prev - map_limits[1])
             ELSE cur)

forward_translate_last(map_limits_list, prev) ==
    forward_match_last(map_limits_list, 1, prev, prev)

\* Faulty variant of forward_translate: current starts at 0 instead of None
\* and is never replaced by previous.
forward_translate_no_fallback(map_limits_list, prev) ==
    LET cur == forward_match(map_limits_list, 1, prev) IN
    IF cur = <<>> THEN 0 ELSE cur[1]

\* current after `if current is None: current = previous`
forward_translate(map_limits_list, prev) ==
    LET cur == forward_match(map_limits_list, 1, prev) IN
    IF cur = <<>> THEN prev ELSE cur[1]

\* the same loop of reverse_map_to_min_location
RECURSIVE reverse_match(_, _, _)
reverse_match(map_limits_list, i, prev) ==
    IF i > Len(map_limits_list) THEN <<>>
    ELSE LET map_limits == map_limits_list[i] IN
         IF prev >= map_limits[3] /\ prev <= map_limits[4]
         THEN << map_limits[1] + (prev - map_limits[3]) >>
         ELSE reverse_match(map_limits_list, i + 1, prev)

\* Faulty variant of reverse_translate: the test of the forward loop (on the
\* source range) is kept.
RECURSIVE reverse_match_by_source(_, _, _)
reverse_match_by_source(map_limits_list, i, prev) ==
    IF i > Len(map_limits_list) THEN prev
    ELSE LET map_limits == map_limits_list[i] IN
         IF prev >= map_limits[1] /\ prev <= map_limits[2]
         THEN map_limits[1] + (prev - map_limits[3])
         ELSE reverse_match_by_source(map_limits_list, i + 1, prev)

reverse_translate_by_source(map_limits_list, prev) ==
    reverse_match_by_source(map_limits_list, 1, prev)

\* Faulty variant of reverse_translate: current starts at 0 instead of None
\* and is never replaced by previous.
reverse_translate_no_fallback(map_limits_list, prev) ==
    LET cur == reverse_match(map_limits_list, 1, prev) IN
    IF cur = <<>> THEN 0 ELSE cur[1]

reverse_translate(map_limits_list, prev) ==
    LET cur == reverse_match(map_limits_list, 1, prev) IN
    IF cur = <<>> THEN prev ELSE cur[1]

\* Faulty variant of in_seed_ranges: the upper bound is exclusive.
in_seed_ranges_exclusive(ranges, prev) ==
    \E i \in 1..Len(ranges) : prev >= ranges[i][1] /\ prev < ranges[i][2]

\* Faulty variant of in_seed_ranges: the bounds of a range are put in order
\* before the test, so a range of length 0 holds two values.
in_seed_ranges_unordered(ranges, prev) ==
    \E i \in 1..Len(ranges) :
        \/ prev >= ranges[i][1] /\ prev <= ranges[i][2]
        \/ prev >= ranges[i][2] /\ prev <= ranges[i][1]

\* the loop `for seed_range in seed_ranges`: whether it reaches the break
in_seed_ranges(ranges, prev) ==
    \E i \in 1..Len(ranges) : prev >= ranges[i][1] /\ prev <= ranges[i][2]

-----------------------------------------------------------------------------
(* The almanacs the functions are called with *)

\* the numbers of nums separated by one space
RECURSIVE number_text(_)
number_text(nums) ==
    IF nums = <<>> THEN <<>>
    ELSE IF Len(nums) = 1 THEN decimal(nums[1])
    ELSE decimal(nums[1]) \o << " " >> \o number_text(Tail(nums))

seeds_line(nums) ==
    IF nums = <<>> THEN << "seeds:" >> ELSE << "seeds: " >> \o number_text(nums)

\* the lines of one block: its header and one line per rule (dest, src, len)
block(map_name, rules) ==
    << << map_name >> >> \o [i \in 1..Len(rules) |-> number_text(rules[i])]

\* the blocks named by order, each after a blank line
RECURSIVE blocks(_, _)
blocks(order, rules_of) ==
    IF order = <<>> THEN <<>>
    ELSE << <<>> >> \o block(order[1], rules_of[order[1]])
             \o blocks(Tail(order), rules_of)

\* the file: the seeds line, then the blocks in the textual order `order`;
\* a file whose last line is blank has trailing_blank
almanac(seed_nums, order, rules_of, trailing_blank) ==
    << seeds_line(seed_nums) >> \o blocks(order, rules_of)
        \o (IF trailing_blank THEN << <<>> >> ELSE <<>>)

\* the example of the puzzle text
example_rules ==
    [n \in {map_names[i] : i \in 1..Len(map_names)} |->
        CASE n = "seed-to-soil map:" -> << <<50, 98, 2>>, <<52, 50, 48>> >>
          [] n = "soil-to-fertilizer map:" ->
                 << <<0, 15, 37>>, <<37, 52, 2>>, <<39, 0, 15>> >>
          [] n = "fertilizer-to-water map:" ->
                 << <<49, 53, 8>>, <<0, 11, 42>>, <<42, 0, 7>>, <<57, 7, 4>> >>
          [] n = "water-to-light map:" -> << <<88, 18, 7>>, <<18, 25, 70>> >>
          [] n = "light-to-temperature map:" ->
                 << <<45, 77, 23>>, <<81, 45, 19>>, <<68, 64, 13>> >>
          [] n = "temperature-to-humidity map:" -> << <<0, 69, 1>>, <<1, 0, 69>> >>
          [] n = "humidity-to-location map:" -> << <<60, 56, 37>>, <<56, 93, 4>> >>]

example_lines == almanac(<<79, 14, 55, 13>>, map_names, example_rules, FALSE)

\* the rule lines that are drawn
RuleLines == { <<d, s, l>> : d \in 0..MaxNum, s \in 0..MaxNum, l \in 0..MaxLen }

\* the tables of at most n rule lines
RECURSIVE RuleLists(_)
RuleLists(n) ==
    IF n = 0 THEN { <<>> }
    ELSE LET shorter == RuleLists(n - 1) IN
         shorter \cup { Append(t, r) : t \in { u \in shorter : Len(u) = n - 1 },
                                       r \in RuleLines }

\* map_names with the first and the last block exchanged in the text
swapped_order ==
    [i \in 1..Len(map_names) |->
        IF i = 1 THEN map_names[Len(map_names)]
        ELSE IF i = Len(map_names) THEN map_names[1] ELSE map_names[i]]

\* small almanacs: one seed pair, at most one rule in the first table, the
\* last table empty or exchanging 0 and 1, the other tables empty
small_rules(first, last) ==
    [n \in {map_names[i] : i \in 1..Len(map_names)} |->
        IF n = map_names[1] THEN first
        ELSE IF n = map_names[Len(map_names)] THEN last ELSE <<>>]

SmallAlmanacs ==
    { almanac(<<a, n>>, order, small_rules(first, last), TRUE) :
        a \in 0..MaxNum, n \in 0..MaxLen,
        order \in {map_names, swapped_order},
        first \in RuleLists(1),
        last \in { <<>>, << <<0, 1, 1>>, <<1, 0, 1>> >> } }

\* seeds lines with no number, an odd count of numbers, and two pairs, one
\* of them of length 0
OtherSeeds ==
    { <<>>, <<0>>, <<1, 1, 0>>, <<1, 1>>, <<1, 0, 1, 1>>, <<0, 1, 1, 0>> }

\* map_names without its k-th name
without_name(k) ==
    [i \in 1..(Len(map_names) - 1) |->
        IF i < k THEN map_names[i] ELSE map_names[i + 1]]

\* the k-th table holds rows, the other tables are empty
only_table(k, rows) ==
    [n \in {map_names[i] : i \in 1..Len(map_names)} |->
        IF n = map_names[k] THEN rows ELSE <<>>]

\* almanacs without rules, with one rule, with the block of the first, a
\* middle or the last table missing, or holding a line of two numbers after
\* a rule line
OtherAlmanacs ==
    { almanac(s, map_names, only_table(1, rows), TRUE) :
        s \in OtherSeeds, rows \in { <<>>, << <<1, 0, 1>> >> } }
    \cup
    { almanac(s, without_name(k), only_table(1, <<>>), TRUE) :
        s \in OtherSeeds, k \in {1, 4, Len(map_names)} }
    \cup
    { almanac(s, map_names, only_table(k, << <<1, 0, 1>>, <<1, 0>> >>), TRUE) :
        s \in OtherSeeds, k \in {1, 4, Len(map_names)} }

Almanacs == {example_lines} \cup SmallAlmanacs \cup OtherAlmanacs

-----------------------------------------------------------------------------
(* The two functions, step by step *)

None == << >>

\* the names whose maps are built, in the order of the loop that builds them
build_order ==
    IF call = "get_seed_location_lookup" THEN map_names ELSE reversed_map_names

\* every number written in the almanac
numbers_in(ls) ==
    UNION { { finditer_ints(ls[i], 1, <<>>, <<>>)[k] :
                k \in 1..Len(finditer_ints(ls[i], 1, <<>>, <<>>)) } :
            i \in 1..Len(ls) }

max_number(ls) ==
    IF numbers_in(ls) = {} THEN 0
    ELSE CHOOSE m \in numbers_in(ls) : \A k \in numbers_in(ls) : k <= m

\* No limit of a rule or of a seed range exceeds twice the largest number of
\* the almanac: above it every location translates to itself and lies in no
\* seed range, so the scan repeats itself; it is followed up to scan_limit.
scan_limit(ls) == 2 * max_number(ls) + ScanSlack

Init ==
    /\ lines \in Almanacs
    /\ call \in {"get_seed_location_lookup", "reverse_map_to_min_location"}
    /\ pc = "start"
    /\ raised = ""
    /\ message = <<>>
    /\ seeds = <<>>
    /\ seed_ranges = <<>>
    /\ maps = <<>>
    /\ seed_i = 0
    /\ map_i = 0
    /\ previous = 0
    /\ current = None
    /\ back = None
    /\ seed_location_lookup = <<>>
    /\ location = 0
    /\ not_in_seeds = TRUE
    /\ OtherDaysIdle

\* seeds = get_seeds(lines[0])
ParseSeeds ==
    /\ pc = "start"
    /\ call = "get_seed_location_lookup"
    /\ seeds' = get_seeds(lines[1])
    /\ pc' = "build"
    /\ UNCHANGED <<other_days, lines, call, raised, message, seed_ranges, maps, seed_i,
                   map_i, previous, current, back, seed_location_lookup,
                   location, not_in_seeds>>

\* seed_ranges = get_seed_range(lines[0])
ParseSeedRanges ==
    /\ pc = "start"
    /\ call = "reverse_map_to_min_location"
    /\ LET r == get_seed_range(lines[1]) IN
       /\ raised' = r.exc
       /\ message' = r.msg
       /\ seed_ranges' = r.value
       /\ pc' = IF r.exc = "" THEN "build" ELSE "raised"
    /\ UNCHANGED <<other_days, lines, call, seeds, maps, seed_i, map_i, previous, current,
                   back, seed_location_lookup, location, not_in_seeds>>

\* Faulty variant of BuildMap: a table that cannot be built is taken as empty.
BuildMap_lenient ==
    /\ pc = "build"
    /\ LET map_name == build_order[map_i + 1]
           r == build_map(lines, map_name)
           last == map_i + 1 = Len(build_order)
       IN
       /\ maps' = Append(maps, <<map_name, r.value>>)
       /\ map_i' = IF ~last THEN map_i + 1 ELSE 0
       /\ pc' = IF ~last THEN "build"
                ELSE IF call = "get_seed_location_lookup" THEN "for_seed"
                ELSE "while"
    /\ UNCHANGED <<other_days, lines, call, raised, message, seeds, seed_ranges, seed_i,
                   previous, current, back, seed_location_lookup, location,
                   not_in_seeds>>

\* one pass of `for map_name in map_names: maps[map_name] = build_map(...)`
BuildMap ==
    /\ pc = "build"
    /\ LET map_name == build_order[map_i + 1]
           r == build_map(lines, map_name)
           last == map_i + 1 = Len(build_order)
       IN
       /\ raised' = r.exc
       /\ message' = r.msg
       /\ maps' = IF r.exc = "" THEN Append(maps, <<map_name, r.value>>) ELSE maps
       /\ map_i' = IF r.exc = "" /\ ~last THEN map_i + 1 ELSE 0
       /\ pc' = IF r.exc # "" THEN "raised"
                ELSE IF ~last THEN "build"
                ELSE IF call = "get_seed_location_lookup" THEN "for_seed"
                ELSE "while"
    /\ UNCHANGED <<other_days, lines, call, seeds, seed_ranges, seed_i, previous, current,
                   back, seed_location_lookup, location, not_in_seeds>>

\* Faulty variant of NextSeed: previous is set to the seed before the loop
\* only, so a later seed starts from the location of the seed before it.
NextSeed_carry ==
    /\ pc = "for_seed"
    /\ IF seed_i < Len(seeds)
       THEN /\ previous' = IF seed_i = 0 THEN seeds[seed_i + 1] ELSE previous
            /\ pc' = "for_map"
       ELSE /\ pc' = "return"
            /\ UNCHANGED previous
    /\ map_i' = 0
    /\ UNCHANGED <<other_days, lines, call, raised, message, seeds, seed_ranges, maps,
                   seed_i, current, back, seed_location_lookup, location,
                   not_in_seeds>>

\* `for seed in seeds`: previous = seed, or return seed_location_lookup
NextSeed ==
    /\ pc = "for_seed"
    /\ IF seed_i < Len(seeds)
       THEN /\ previous' = seeds[seed_i + 1]
            /\ pc' = "for_map"
       ELSE /\ pc' = "return"
            /\ UNCHANGED previous
    /\ map_i' = 0
    /\ UNCHANGED <<other_days, lines, call, raised, message, seeds, seed_ranges, maps,
                   seed_i, current, back, seed_location_lookup, location,
                   not_in_seeds>>

\* Faulty variant of Translate: the rules of a table are popped off as they
\* are tried, so a table is left empty once it has translated a value.
Translate_consuming ==
    /\ pc = "for_map"
    /\ LET map_limits_list == maps[map_i + 1][2] IN
       /\ previous' = forward_translate(map_limits_list, previous)
       /\ maps' = [maps EXCEPT ![map_i + 1] = << maps[map_i + 1][1], <<>> >>]
    /\ map_i' = map_i + 1
    /\ pc' = IF map_i + 1 = Len(maps) THEN "store" ELSE "for_map"
    /\ UNCHANGED <<other_days, lines, call, raised, message, seeds, seed_ranges,
                   seed_i, current, back, seed_location_lookup, location,
                   not_in_seeds>>

\* Faulty variant of Translate: every table translates the seed instead of
\* the previous table's output.
Translate_from_seed ==
    /\ pc = "for_map"
    /\ LET map_limits_list == maps[map_i + 1][2] IN
       previous' = forward_translate(map_limits_list, seeds[seed_i + 1])
    /\ map_i' = map_i + 1
    /\ pc' = IF map_i + 1 = Len(maps) THEN "store" ELSE "for_map"
    /\ UNCHANGED <<other_days, lines, call, raised, message, seeds, seed_ranges, maps,
                   seed_i, current, back, seed_location_lookup, location,
                   not_in_seeds>>

\* one pass of `for map_name, map_limits_list in maps.items()` (lines 61-75)
Translate ==
    /\ pc = "for_map"
    /\ LET map_limits_list == maps[map_i + 1][2] IN
       previous' = forward_translate(map_limits_list, previous)
    /\ map_i' = map_i + 1
    /\ pc' = IF map_i + 1 = Len(maps) THEN "store" ELSE "for_map"
    /\ UNCHANGED <<other_days, lines, call, raised, message, seeds, seed_ranges, maps,
                   seed_i, current, back, seed_location_lookup, location,
                   not_in_seeds>>

\* seed_location_lookup[seed] = previous
Store ==
    /\ pc = "store"
    /\ seed_location_lookup' =
           (seeds[seed_i + 1] :> previous) @@ seed_location_lookup
    /\ seed_i' = seed_i + 1
    /\ pc' = "for_seed"
    /\ UNCHANGED <<other_days, lines, call, raised, message, seeds, seed_ranges, maps,
                   map_i, previous, current, back, location, not_in_seeds>>

\* `while not_in_seeds`: previous = location
StartCandidate ==
    /\ pc = "while"
    /\ previous' = location
    /\ map_i' = 0
    /\ pc' = "rev_map"
    /\ UNCHANGED <<other_days, lines, call, raised, message, seeds, seed_ranges, maps,
                   seed_i, current, back, seed_location_lookup, location,
                   not_in_seeds>>

\* one pass of `for map_name, map_limits_list in maps.items()` (lines 239-250)
ReverseTranslate ==
    /\ pc = "rev_map"
    /\ LET map_limits_list == maps[map_i + 1][2] IN
       previous' = reverse_translate(map_limits_list, previous)
    /\ map_i' = map_i + 1
    /\ pc' = IF map_i + 1 = Len(maps) THEN "check" ELSE "rev_map"
    /\ UNCHANGED <<other_days, lines, call, raised, message, seeds, seed_ranges, maps,
                   seed_i, current, back, seed_location_lookup, location,
                   not_in_seeds>>

\* Faulty variant of CheckSeedRanges: the increment is 2, so the scan tries
\* every other candidate.
CheckSeedRanges_skipping ==
    /\ pc = "check"
    /\ LET hit == in_seed_ranges(seed_ranges, previous) IN
       /\ hit \/ location < scan_limit(lines)
       /\ not_in_seeds' = ~hit
       /\ location' = IF hit THEN location ELSE location + 2
       /\ pc' = IF hit THEN "return" ELSE "while"
    /\ UNCHANGED <<other_days, lines, call, raised, message, seeds, seed_ranges, maps,
                   seed_i, map_i, previous, current, back,
                   seed_location_lookup>>

\* lines 253-260: the seed range check and the increment; the loop ends and
\* location is returned when not_in_seeds is False
CheckSeedRanges ==
    /\ pc = "check"
    /\ LET hit == in_seed_ranges(seed_ranges, previous) IN
       /\ hit \/ location < scan_limit(lines)
       /\ not_in_seeds' = ~hit
       /\ location' = IF hit THEN location ELSE location + 1
       /\ pc' = IF hit THEN "return" ELSE "while"
    /\ UNCHANGED <<other_days, lines, call, raised, message, seeds, seed_ranges, maps,
                   seed_i, map_i, previous, current, back,
                   seed_location_lookup>>

Next ==
    \/ ParseSeeds
    \/ ParseSeedRanges
    \/ BuildMap
    \/ NextSeed
    \/ Translate
    \/ Store
    \/ StartCandidate
    \/ ReverseTranslate
    \/ CheckSeedRanges

Spec == Init /\ [][Next]_vars

-----------------------------------------------------------------------------
(* One table and one value: the translation steps on their own *)

\* a file holding one block: the header, at most MaxRules rule lines, a blank
TableFiles ==
    { block(map_names[1], rules) \o << <<>> >> : rules \in RuleLists(MaxRules) }

InitTable ==
    /\ lines \in TableFiles
    /\ call = "translate"
    /\ pc = "table"
    /\ raised = ""
    /\ message = <<>>
    /\ seeds = <<>>
    /\ seed_ranges = <<>>
    /\ maps = << <<map_names[1], build_map(lines, map_names[1]).value>> >>
    /\ seed_i = 0
    /\ map_i = 0
    /\ previous \in 0..(MaxNum + MaxLen)
    /\ current = None
    /\ back = None
    /\ seed_location_lookup = <<>>
    /\ location = 0
    /\ not_in_seeds = TRUE
    /\ OtherDaysIdle

\* Faulty variant of ForwardOnce: without `if current is None: current =
\* previous`, current stays None when no rule holds previous.
ForwardOnce_unset ==
    /\ pc = "table"
    /\ current' = forward_match(maps[1][2], 1, previous)
    /\ pc' = "forward"
    /\ UNCHANGED <<other_days, lines, call, raised, message, seeds, seed_ranges, maps,
                   seed_i, map_i, previous, back, seed_location_lookup,
                   location, not_in_seeds>>

\* lines 66-74 for the table and previous: current is set
ForwardOnce ==
    /\ pc = "table"
    /\ current' = << forward_translate(maps[1][2], previous) >>
    /\ pc' = "forward"
    /\ UNCHANGED <<other_days, lines, call, raised, message, seeds, seed_ranges, maps,
                   seed_i, map_i, previous, back, seed_location_lookup,
                   location, not_in_seeds>>

\* lines 241-249 for the table and previous: current is set
ReverseOnce ==
    /\ pc = "table"
    /\ current' = << reverse_translate(maps[1][2], previous) >>
    /\ pc' = "reverse"
    /\ UNCHANGED <<other_days, lines, call, raised, message, seeds, seed_ranges, maps,
                   seed_i, map_i, previous, back, seed_location_lookup,
                   location, not_in_seeds>>

\* lines 241-249 for the table and the forward translation of previous
RoundTrip ==
    /\ pc = "forward"
    /\ back' = << reverse_translate(maps[1][2], current[1]) >>
    /\ pc' = "round_trip"
    /\ UNCHANGED <<other_days, lines, call, raised, message, seeds, seed_ranges, maps,
                   seed_i, map_i, previous, current, seed_location_lookup,
                   location, not_in_seeds>>

NextTable == ForwardOnce \/ ReverseOnce \/ RoundTrip

SpecTable == InitTable /\ [][NextTable]_vars

-----------------------------------------------------------------------------
(* build_map on its own: one file, one call *)

\* lines that are no rule line: two numbers, four numbers, no number
BadLines == { number_text(<<1, 0>>), number_text(<<1, 0, 1, 1>>), << "x" >> }

\* the line "1.5 2": three runs of digits that are not three written numbers
DottedLine == << "1", ".", "5", " ", "2" >>

\* the rule lines drawn for a block: the smallest and largest destination,
\* every source, the lengths 0, 1 and the largest
BuildRuleLines ==
    { <<d, s, l>> : d \in {0, MaxNum}, s \in 0..MaxNum, l \in {0, 1, MaxLen} }

BlockLines ==
    { number_text(t) : t \in BuildRuleLines } \cup BadLines \cup {DottedLine}

\* the bodies of at most n lines under a header
RECURSIVE Bodies(_)
Bodies(n) ==
    IF n = 0 THEN { <<>> }
    ELSE LET shorter == Bodies(n - 1) IN
         shorter \cup { Append(b, l) : b \in { u \in shorter : Len(u) = n - 1 },
                                       l \in BlockLines }

\* what follows the body: the end of the file, a blank last line, or a blank
\* line and the next block
Endings ==
    { <<>>,
      << <<>> >>,
      << <<>>, << map_names[2] >>, number_text(<<0, 0, 1>>) >> }

\* the header of the first table as it should be, or without its colon
HeaderLines == { << map_names[1] >>, << "seed-to-soil map" >> }

BuildFiles ==
    { << seeds_line(<<0, 1>>), <<>>, header >> \o body \o ending :
        header \in HeaderLines, body \in Bodies(MaxRules), ending \in Endings }

InitBuild ==
    /\ lines \in BuildFiles
    /\ call = "build_map"
    /\ pc = "build_map"
    /\ raised = ""
    /\ message = <<>>
    /\ seeds = <<>>
    /\ seed_ranges = <<>>
    /\ maps = <<>>
    /\ seed_i = 0
    /\ map_i = 0
    /\ previous = 0
    /\ current = None
    /\ back = None
    /\ seed_location_lookup = <<>>
    /\ location = 0
    /\ not_in_seeds = TRUE
    /\ OtherDaysIdle

\* build_map(lines, map_names[map_i]): the table returned is kept in maps
CallBuildMap ==
    /\ pc = "build_map"
    /\ LET map_name == map_names[map_i + 1]
           r == build_map(lines, map_name)
       IN
       /\ raised' = r.exc
       /\ message' = r.msg
       /\ maps' = IF r.exc = "" THEN << <<map_name, r.value>> >> ELSE <<>>
       /\ pc' = IF r.exc = "" THEN "built" ELSE "raised"
    /\ UNCHANGED <<other_days, lines, call, seeds, seed_ranges, seed_i, map_i, previous,
                   current, back, seed_location_lookup, location, not_in_seeds>>

NextBuild == CallBuildMap

SpecBuild == InitBuild /\ [][NextBuild]_vars

-----------------------------------------------------------------------------
(* reverse_map_to_min_location on its own, run to its end *)

\* one seed pair, at most one rule in the first table, the last table empty
\* or exchanging 0 and 1; and the almanacs of OtherAlmanacs
ScanAlmanacs ==
    { almanac(<<a, n>>, map_names, small_rules(first, last), TRUE) :
        a \in {0, MaxNum}, n \in {0, 1, MaxLen},
        first \in { <<>> } \cup { << r >> : r \in BuildRuleLines },
        last \in { <<>>, << <<0, 1, 1>>, <<1, 0, 1>> >> } }
    \cup OtherAlmanacs

InitScan ==
    /\ lines \in ScanAlmanacs
    /\ call = "reverse_map_to_min_location"
    /\ pc = "start"
    /\ raised = ""
    /\ message = <<>>
    /\ seeds = <<>>
    /\ seed_ranges = <<>>
    /\ maps = <<>>
    /\ seed_i = 0
    /\ map_i = 0
    /\ previous = 0
    /\ current = None
    /\ back = None
    /\ seed_location_lookup = <<>>
    /\ location = 0
    /\ not_in_seeds = TRUE
    /\ OtherDaysIdle

NextScan ==
    \/ ParseSeedRanges
    \/ BuildMap
    \/ StartCandidate
    \/ ReverseTranslate
    \/ CheckSeedRanges

\* the interpreter runs the next statement of a call that has not ended
FairScan == InitScan /\ [][NextScan]_vars /\ WF_vars(NextScan)

-----------------------------------------------------------------------------
(* Day 8: number_camel_steps, step by step *)

\* the command line is followed up to this many characters
MaxCommands == 2
\* the walk is followed up to this many steps
MaxSteps == 6

\* [0 if direction == "L" else 1 for direction in line]
map_directions(line) == [k \in 1..Len(line) |-> IF line[k] = "L" THEN 0 ELSE 1]

\* the pieces that line.replace(" ", "").split("=") and
\* nodes.replace("(", "").replace(")", "").split(",") remove
NodePunctuation == { " = (", ", ", ")" }

\* a node line "<loc> = (<l_node>, <r_node>)"
node_line(loc, l_node, r_node) == << loc, " = (", l_node, ", ", r_node, ")" >>

\* the names of a node line: loc, l_node, r_node
node_names(line) ==
    LET RECURSIVE names(_, _)
        names(k, acc) ==
            IF k > Len(line) THEN acc
            ELSE names(k + 1, IF line[k] \in NodePunctuation THEN acc
                              ELSE Append(acc, line[k]))
    IN names(1, <<>>)

\* map_dict after the lines from position k on; a later line of a loc
\* replaces an earlier one
RECURSIVE get_node_map_loop(_, _, _)
get_node_map_loop(ls, k, map_dict) ==
    IF k > Len(ls) THEN map_dict
    ELSE LET n == node_names(ls[k]) IN
         get_node_map_loop(ls, k + 1,
             [x \in DOMAIN map_dict \cup {n[1]} |->
                 IF x = n[1] THEN << n[2], n[3] >> ELSE map_dict[x]])

\* get_node_map(lines[2:]): loc -> (l_node, r_node)
get_node_map(ls) == get_node_map_loop(ls, 1, <<>>)

\* the lines after the command line and the blank line
node_lines(ls) == SubSeq(ls, 3, Len(ls))

Nodes == { "AAA", "BBB", "ZZZ" }

\* the command lines of 1 .. n characters
RECURSIVE CommandLines(_)
CommandLines(n) ==
    IF n = 1 THEN { << c >> : c \in {"L", "R"} }
    ELSE CommandLines(n - 1) \cup
         { Append(t, c) : t \in { u \in CommandLines(n - 1) : Len(u) = n - 1 },
                          c \in {"L", "R"} }

\* a command line, a blank line, and a line for each of AAA, BBB and ZZZ;
\* the line of ZZZ leads to ZZZ or back to AAA
WastelandFiles ==
    { << cmd, <<>>,
         node_line("AAA", a[1], a[2]),
         node_line("BBB", b[1], b[2]),
         node_line("ZZZ", z, z) >> :
        cmd \in CommandLines(MaxCommands),
        a \in Nodes \X Nodes, b \in Nodes \X Nodes, z \in {"ZZZ", "AAA"} }

InitCamel ==
    /\ lines \in WastelandFiles
    /\ call = "number_camel_steps"
    /\ pc = "start"
    /\ raised = ""
    /\ message = <<>>
    /\ Day5Idle
    /\ OtherDaysIdle

\* commands = map_directions(lines[0]); direction_map = get_node_map(lines[2:])
\* num_steps = 0; node = "AAA"
MapDirections ==
    /\ call = "number_camel_steps"
    /\ pc = "start"
    /\ commands' = map_directions(lines[1])
    /\ direction_map' = get_node_map(node_lines(lines))
    /\ num_steps' = 0
    /\ node' = "AAA"
    /\ pc' = "while"
    /\ UNCHANGED <<lines, call, raised, message, day_5, command_i,
                   day_6, day_4, day_10, day_11>>

\* `while node != "ZZZ"`: a pass over commands starts, or num_steps is returned
WhileNotZZZ ==
    /\ call = "number_camel_steps"
    /\ pc = "while"
    /\ IF node # "ZZZ"
       THEN pc' = "for"
       ELSE pc' = "return"
    /\ command_i' = 0
    /\ UNCHANGED <<lines, call, raised, message, day_5, commands,
                   direction_map, node, num_steps, day_6, day_4, day_10, day_11>>

\* one pass of `for command in commands`: node = direction_map[node][command]
\* and num_steps += 1, or the end of the loop; a node without a line is a
\* KeyError
FollowCommand ==
    /\ call = "number_camel_steps"
    /\ pc = "for"
    /\ IF command_i = Len(commands)
       THEN /\ pc' = "while"
            /\ UNCHANGED <<node, num_steps, command_i, raised>>
       ELSE IF node \notin DOMAIN direction_map
       THEN /\ raised' = "KeyError"
            /\ pc' = "raised"
            /\ UNCHANGED <<node, num_steps, command_i>>
       ELSE /\ num_steps < MaxSteps
            /\ node' = direction_map[node][commands[command_i + 1] + 1]
            /\ num_steps' = num_steps + 1
            /\ command_i' = command_i + 1
            /\ pc' = "for"
            /\ UNCHANGED raised
    /\ UNCHANGED <<lines, call, message, day_5, commands,
                   direction_map, day_6, day_4, day_10, day_11>>

NextCamel ==
    \/ MapDirections
    \/ WhileNotZZZ
    \/ FollowCommand

SpecCamel == InitCamel /\ [][NextCamel]_vars

-----------------------------------------------------------------------------
(* Day 6: the two counts of winning button presses *)

\* largest time limit of a drawn race
MaxTime == 4
\* largest record distance of a drawn race
MaxDist == 4

\* a line "Time: 7 15": the label with its colon is one piece, every space
\* is a piece
race_line(label, nums) ==
    LET RECURSIVE spaced(_)
        spaced(ns) ==
            IF ns = <<>> THEN <<>>
            ELSE << " " >> \o decimal(ns[1]) \o spaced(Tail(ns))
    IN << label >> \o spaced(nums)

\* line.split(":")[1]: what follows the label
after_colon(line) == SubSeq(line, 2, Len(line))

\* s.replace(" ", "")
without_spaces(s) == SelectSeq(s, LAMBDA p : p # " ")

\* times or dists: the integers of the line, of the line without its spaces
\* when single_race
race_numbers(line, single) ==
    LET strs == after_colon(line) IN
    finditer_ints(IF single THEN without_spaces(strs) ELSE strs, 1, <<>>, <<>>)

\* len(list(zip(times, dists)))
zip_length(ts, ds) == IF Len(ts) <= Len(ds) THEN Len(ts) ELSE Len(ds)

\* d[key] of a defaultdict(int) held as a function
default_get(d, key) == IF key \in DOMAIN d THEN d[key] ELSE 0

\* d after d[key] = value
dict_set(d, key, value) ==
    [x \in DOMAIN d \cup {key} |-> IF x = key THEN value ELSE d[x]]

\* the passes of `for button_time in range(0, race_time + 1)` in which
\* move_dist > record_dist
record_breaks(race_time, record_dist) ==
    Cardinality({ button_time \in 0..race_time :
                    button_time * (race_time - button_time) > record_dist })

\* broken_records after the races from position k on: += 1 for each
\* button_time that breaks the record (the key exists only after a += 1)
RECURSIVE brute_force_loop(_, _, _, _)
brute_force_loop(ts, ds, k, records) ==
    IF k > zip_length(ts, ds) THEN records
    ELSE LET n == record_breaks(ts[k], ds[k]) IN
         brute_force_loop(ts, ds, k + 1,
             IF n = 0 THEN records
             ELSE dict_set(records, ts[k], default_get(records, ts[k]) + n))

winning_button_press_combinations_brute_force(ls, single) ==
    Returned(brute_force_loop(race_numbers(ls[1], single),
                              race_numbers(ls[2], single), 1, <<>>))

\* A root (p + s * sqrt(d)) / q is held by its parts; ceil and floor of it
\* are found with integer comparisons. sqrt, / , ceil and floor on doubles
\* give these integers for the magnitudes drawn here: a double root is an
\* integer exactly when d is a square, and otherwise lies further from every
\* integer than the rounding error.
root(p, s, d, q) == [p |-> p, s |-> s, d |-> d, q |-> q]

\* m >= s * sqrt(d)
at_least_sqrt(m, s, d) ==
    IF s = 1 THEN m >= 0 /\ m * m >= d
    ELSE m >= 0 \/ m * m <= d

\* m <= s * sqrt(d)
at_most_sqrt(m, s, d) ==
    IF s = 1 THEN m <= 0 \/ m * m <= d
    ELSE m <= 0 /\ m * m >= d

\* n >= r and n <= r
at_least_root(n, r) ==
    IF r.q > 0 THEN at_least_sqrt(n * r.q - r.p, r.s, r.d)
    ELSE at_most_sqrt(n * r.q - r.p, r.s, r.d)

at_most_root(n, r) ==
    IF r.q > 0 THEN at_most_sqrt(n * r.q - r.p, r.s, r.d)
    ELSE at_least_sqrt(n * r.q - r.p, r.s, r.d)

\* integers that lie on both sides of every root of the drawn races: the
\* roots of a race lie in 0 .. race_time, and a time limit has at most two
\* digits once the spaces are removed
RootSpan == (0 - 1) .. (11 * MaxTime + 1)

\* math.ceil(r) and math.floor(r)
ceil(r) ==
    CHOOSE n \in RootSpan : at_least_root(n, r) /\ ~at_least_root(n - 1, r)

floor(r) ==
    CHOOSE n \in RootSpan : at_most_root(n, r) /\ ~at_most_root(n + 1, r)

\* real_quaradtic_roots(a, b, c): (sol_1, sol_2), or ValueError when the
\* discriminant is not positive
real_quaradtic_roots(a, b, c) ==
    LET discriminant == b * b - (4 * a * c) IN
    IF ~(discriminant > 0)
    THEN Raised("ValueError",
                << "Discriminant is not positive, therefore solutions are not real or do not exist. Got discriminant = " >>
                \o (IF discriminant < 0 THEN << "-" >> \o decimal(0 - discriminant)
                    ELSE decimal(discriminant))
                \o << "." >>)
    ELSE Returned(<< root(0 - b, 1, discriminant, 2 * a),
                     root(0 - b, 0 - 1, discriminant, 2 * a) >>)

\* broken_records after the races from position k on, or the ValueError of
\* real_quaradtic_roots
RECURSIVE roots_loop(_, _, _, _)
roots_loop(ts, ds, k, records) ==
    IF k > zip_length(ts, ds) THEN Returned(records)
    ELSE LET solutions == real_quaradtic_roots(0 - 1, ts[k], (0 - 1) * ds[k]) IN
         IF solutions.exc # "" THEN solutions
         ELSE LET min_button_time == ceil(solutions.value[1])
                  max_button_time == floor(solutions.value[2])
                  number_of_cases == max_button_time - min_button_time + 1
              IN roots_loop(ts, ds, k + 1,
                            dict_set(records, ts[k], number_of_cases))

winning_button_press_combinations(ls, single) ==
    roots_loop(race_numbers(ls[1], single), race_numbers(ls[2], single), 1, <<>>)

\* one number or two numbers of 0 .. top
OneOrTwo(top) ==
    { << x >> : x \in 0..top } \cup { << x, y >> : x \in 0..top, y \in 0..top }

\* a Time line and a Distance line of as many numbers, one or two
RaceFiles ==
    { << race_line("Time:", p[1]), race_line("Distance:", p[2]) >> :
        p \in { q \in OneOrTwo(MaxTime) \X OneOrTwo(MaxDist) :
                  Len(q[1]) = Len(q[2]) } }

InitRace ==
    /\ lines \in RaceFiles
    /\ call \in { "winning_button_press_combinations_brute_force",
                  "winning_button_press_combinations" }
    /\ pc = "start"
    /\ raised = ""
    /\ message = <<>>
    /\ Day5Idle
    /\ Day8Idle
    /\ single_race \in BOOLEAN
    /\ broken_records = <<>>
    /\ Day4Idle
    /\ Day10Idle
    /\ Day11Idle

\* the call of winning_button_press_combinations_brute_force(lines, single_race)
CallBruteForce ==
    /\ call = "winning_button_press_combinations_brute_force"
    /\ pc = "start"
    /\ LET r == winning_button_press_combinations_brute_force(lines, single_race) IN
       /\ broken_records' = r.value
       /\ raised' = r.exc
       /\ message' = r.msg
       /\ pc' = "return"
    /\ UNCHANGED <<lines, call, day_5, day_8, single_race, day_4, day_10, day_11>>

\* the call of winning_button_press_combinations(lines, single_race)
CallRoots ==
    /\ call = "winning_button_press_combinations"
    /\ pc = "start"
    /\ LET r == winning_button_press_combinations(lines, single_race) IN
       /\ broken_records' = r.value
       /\ raised' = r.exc
       /\ message' = r.msg
       /\ pc' = IF r.exc = "" THEN "return" ELSE "raised"
    /\ UNCHANGED <<lines, call, day_5, day_8, single_race, day_4, day_10, day_11>>

NextRace ==
    \/ CallBruteForce
    \/ CallRoots

SpecRace == InitRace /\ [][NextRace]_vars

-----------------------------------------------------------------------------
(* Day 4: calculate_number_of_cards, step by step *)

\* most cards of a drawn input
MaxCards == 3

\* checks = [10, 25]: the numbers a card must hold left and right of the bar
WinningCount == 10
ElfCount == 25

\* s.split(sep): the segments of s between the pieces equal to sep
split(s, sep) ==
    LET cuts == { k \in 1..Len(s) : s[k] = sep }
        \* the position of the j-th separator; 0 before the first segment and
        \* Len(s) + 1 after the last
        cut(j) ==
            IF j = 0 THEN 0
            ELSE IF j > Cardinality(cuts) THEN Len(s) + 1
            ELSE CHOOSE p \in cuts : Cardinality({ q \in cuts : q < p }) = j - 1
    IN [j \in 1..(Cardinality(cuts) + 1) |-> SubSeq(s, cut(j - 1) + 1, cut(j) - 1)]

\* [int(m.group()) for m in re.finditer("[0-9]+", s)] for a long line: the
\* maximal digit runs of s by their first and last positions
digit_runs(s) ==
    LET starts == { k \in 1..Len(s) :
                      s[k] \in Digit /\ (k = 1 \/ s[k - 1] \notin Digit) }
        start(j) == CHOOSE p \in starts : Cardinality({ q \in starts : q < p }) = j - 1
        end(p) == CHOOSE e \in p..Len(s) :
                      /\ \A k \in p..e : s[k] \in Digit
                      /\ (e = Len(s) \/ s[e + 1] \notin Digit)
    IN [j \in 1..Cardinality(starts) |-> int(SubSeq(s, start(j), end(start(j))))]

\* len(set(nums))
distinct_count(nums) == Cardinality({ nums[k] : k \in 1..Len(nums) })

RECURSIVE power_of_two(_)
power_of_two(n) == IF n = 0 THEN 1 ELSE 2 * power_of_two(n - 1)

\* calculate_game_score(line): (card_id, points, len(common_nums)) or the
\* exception raised. ValueError("Unable to find a card id.") is built but not
\* raised, so a card without an id ends at the return with card_id unbound.
calculate_game_score(line) ==
    LET halves == split(line, ":") IN
    IF Len(halves) # 2
    THEN Raised("ValueError", << "unpack" >>)
    ELSE
    LET card_name == halves[1]
        card_numbers == halves[2]
        ids == digit_runs(card_name)
        sides == split(card_numbers, "|")
    IN
    IF Len(sides) # 2
    THEN Raised("ValueError", << "unpack" >>)
    ELSE
    LET winning_numbers == digit_runs(sides[1])
        elf_numbers == digit_runs(sides[2])
        common_nums == { winning_numbers[k] : k \in 1..Len(winning_numbers) }
                           \cap { elf_numbers[k] : k \in 1..Len(elf_numbers) }
        points == IF Cardinality(common_nums) > 0
                  THEN power_of_two(Cardinality(common_nums) - 1)
                  ELSE 0
    IN
    IF Len(winning_numbers) # WinningCount
    THEN Raised("ValueError",
                << "Detected " >> \o decimal(Len(winning_numbers))
                    \o << " winning numbers. Should be 10." >>)
    ELSE IF Len(elf_numbers) # ElfCount
    THEN Raised("ValueError",
                << "Detected " >> \o decimal(Len(elf_numbers))
                    \o << " elf numbers. Should be 25." >>)
    ELSE IF distinct_count(winning_numbers) # Len(winning_numbers)
    THEN Raised("ValueError", << "Duplicate number detected in winning numbers" >>)
    ELSE IF distinct_count(elf_numbers) # Len(elf_numbers)
    THEN Raised("ValueError", << "Duplicate number detected in elf numbers." >>)
    ELSE IF ids = <<>>
    THEN Raised("UnboundLocalError", << "card_id" >>)
    ELSE Returned(<< ids[1], points, Cardinality(common_nums) >>)

\* list(range(id + 1, id + num_match + 1))
get_copies(id, num_match) == [k \in 1..num_match |-> id + k]

\* a dict held as its items (key, value) in insertion order
items_has(items, key) == \E k \in 1..Len(items) : items[k][1] = key

items_get(items, key) ==
    items[CHOOSE k \in 1..Len(items) : items[k][1] = key][2]

\* d[key] = value: a key that is present keeps its place
items_set(items, key, value) ==
    IF items_has(items, key)
    THEN [k \in 1..Len(items) |->
             IF items[k][1] = key THEN << key, value >> ELSE items[k]]
    ELSE Append(items, << key, value >>)

\* matching_nums after the lines from position k on, or the exception of
\* calculate_game_score
RECURSIVE matching_nums_loop(_, _, _)
matching_nums_loop(ls, k, items) ==
    IF k > Len(ls) THEN Returned(items)
    ELSE LET game == calculate_game_score(ls[k]) IN
         IF game.exc # "" THEN game
         ELSE matching_nums_loop(ls, k + 1,
                                 items_set(items, game.value[1], game.value[3]))

\* counts after `for copy in copies_ids: counts[copy] += 1` from position k on
RECURSIVE count_copies(_, _, _)
count_copies(copies, k, cnt) ==
    IF k > Len(copies) THEN cnt
    ELSE count_copies(copies, k + 1,
                      dict_set(cnt, copies[k], default_get(cnt, copies[k]) + 1))

\* the numbers first .. last in order
number_run(first, last) == [k \in 1..(last - first + 1) |-> first + k - 1]

\* a card line "Card <id>: <10 numbers> | <25 numbers>" with m matches: the
\* winning numbers are 1 .. 10, the numbers of the card are 1 .. m and
\* 11 .. 35 - m
card_line(id, m) ==
    << "Card " >> \o decimal(id) \o << ":", " " >>
        \o number_text(number_run(1, WinningCount))
        \o << " ", "|", " " >>
        \o number_text(number_run(1, m)
                           \o number_run(WinningCount + 1, WinningCount + ElfCount - m))

\* the match counts of the cards 1 .. n: card id has at most n - id + 1
\* matches, one more than the cards after it
RECURSIVE MatchLists(_, _)
MatchLists(n, id) ==
    IF id > n THEN { <<>> }
    ELSE { << m >> \o t : m \in 0..(n - id + 1), t \in MatchLists(n, id + 1) }

CardFiles ==
    UNION { { [id \in 1..n |-> card_line(id, ms[id])] : ms \in MatchLists(n, 1) } :
            n \in 1..MaxCards }

InitCards ==
    /\ lines \in CardFiles
    /\ call = "calculate_number_of_cards"
    /\ pc = "start"
    /\ raised = ""
    /\ message = <<>>
    /\ Day5Idle
    /\ OtherDaysIdle

\* game_scores, matching_nums, counts = defaultdict(int)
MatchingNums ==
    /\ call = "calculate_number_of_cards"
    /\ pc = "start"
    /\ LET r == matching_nums_loop(lines, 1, <<>>) IN
       /\ matching_nums' = r.value
       /\ raised' = r.exc
       /\ message' = r.msg
       /\ pc' = IF r.exc = "" THEN "for_card" ELSE "raised"
    /\ card_i' = 0
    /\ UNCHANGED <<lines, call, day_5, day_8, day_6, counts, copies_ids, copy_i,
                   day_10, day_11>>

\* `for id, num_matches in matching_nums.items()`: counts[id] += 1 and
\* copies_ids = get_copies(id, num_matches), or the return of counts
NextCard ==
    /\ call = "calculate_number_of_cards"
    /\ pc = "for_card"
    /\ IF card_i < Len(matching_nums)
       THEN LET id == matching_nums[card_i + 1][1]
                num_matches == matching_nums[card_i + 1][2]
            IN
            /\ counts' = dict_set(counts, id, default_get(counts, id) + 1)
            /\ copies_ids' = get_copies(id, num_matches)
            /\ pc' = "for_copy"
       ELSE /\ pc' = "return"
            /\ UNCHANGED <<counts, copies_ids>>
    /\ copy_i' = 0
    /\ UNCHANGED <<lines, call, raised, message, day_5, day_8, day_6,
                   matching_nums, card_i, day_10, day_11>>

\* Faulty variant of ExpandCopy: the copies won by a copy are not appended.
ExpandCopy_flat ==
    /\ call = "calculate_number_of_cards"
    /\ pc = "for_copy"
    /\ IF copy_i = Len(copies_ids)
       THEN /\ pc' = "count"
            /\ UNCHANGED <<copy_i, raised>>
       ELSE IF ~items_has(matching_nums, copies_ids[copy_i + 1])
       THEN /\ raised' = "KeyError"
            /\ pc' = "raised"
            /\ UNCHANGED copy_i
       ELSE /\ copy_i' = copy_i + 1
            /\ pc' = "for_copy"
            /\ UNCHANGED raised
    /\ UNCHANGED <<lines, call, message, day_5, day_8, day_6, matching_nums,
                   counts, copies_ids, card_i, day_10, day_11>>

\* one pass of `for copy_id in copies_ids`: the copies of copy_id are appended
\* to the list that is iterated; matching_nums[copy_id] of a card that is
\* not in the input is a KeyError; at the end of the list the counting starts
ExpandCopy ==
    /\ call = "calculate_number_of_cards"
    /\ pc = "for_copy"
    /\ IF copy_i = Len(copies_ids)
       THEN /\ pc' = "count"
            /\ UNCHANGED <<copies_ids, copy_i, raised>>
       ELSE IF ~items_has(matching_nums, copies_ids[copy_i + 1])
       THEN /\ raised' = "KeyError"
            /\ pc' = "raised"
            /\ UNCHANGED <<copies_ids, copy_i>>
       ELSE LET copy_id == copies_ids[copy_i + 1] IN
            /\ copies_ids' = copies_ids
                   \o get_copies(copy_id, items_get(matching_nums, copy_id))
            /\ copy_i' = copy_i + 1
            /\ pc' = "for_copy"
            /\ UNCHANGED raised
    /\ UNCHANGED <<lines, call, message, day_5, day_8, day_6, matching_nums,
                   counts, card_i, day_10, day_11>>

\* `for copy in copies_ids: counts[copy] += 1`, then the next card
CountCopies ==
    /\ call = "calculate_number_of_cards"
    /\ pc = "count"
    /\ counts' = count_copies(copies_ids, 1, counts)
    /\ card_i' = card_i + 1
    /\ pc' = "for_card"
    /\ UNCHANGED <<lines, call, raised, message, day_5, day_8, day_6,
                   matching_nums, copies_ids, copy_i, day_10, day_11>>

NextCards ==
    \/ MatchingNums
    \/ NextCard
    \/ ExpandCopy
    \/ CountCopies

SpecCards == InitCards /\ [][NextCards]_vars

-----------------------------------------------------------------------------
(* Day 10: max_maze_distance, step by step *)

\* most rows and most columns of a drawn maze
MaxSide == 3

\* seq[k] in Python: k counts from 0, a negative k counts from the end, and
\* any other k is an IndexError
in_range(seq, k) == 0 - Len(seq) <= k /\ k < Len(seq)

item(seq, k) == IF k >= 0 THEN seq[k + 1] ELSE seq[Len(seq) + k + 1]

\* maze[i][j], or the IndexError of either index
tile(maze, i, j) ==
    IF ~in_range(maze, i) THEN Raised("IndexError", << "list index out of range" >>)
    ELSE IF ~in_range(item(maze, i), j)
    THEN Raised("IndexError", << "string index out of range" >>)
    ELSE Returned(item(item(maze, i), j))

\* maze_symbols_lup: symbol -> current direction -> next direction
maze_symbols_lup ==
    [ connector \in {"|", "-", "L", "J", "7", "F"} |->
        CASE connector = "|" -> [d \in {"s", "n"} |-> d]
          [] connector = "-" -> [d \in {"e", "w"} |-> d]
          [] connector = "L" -> [d \in {"s", "w"} |-> IF d = "s" THEN "e" ELSE "n"]
          [] connector = "J" -> [d \in {"s", "e"} |-> IF d = "s" THEN "w" ELSE "n"]
          [] connector = "7" -> [d \in {"e", "n"} |-> IF d = "e" THEN "s" ELSE "w"]
          [] connector = "F" -> [d \in {"n", "w"} |-> IF d = "n" THEN "e" ELSE "s"] ]

\* find_start(maze): (i, j) of "S" in the first row that holds one; without
\* an "S" the return reads j before it is assigned
find_start(maze) ==
    LET rows == { r \in 1..Len(maze) : \E c \in 1..Len(maze[r]) : maze[r][c] = "S" } IN
    IF rows = {} THEN Raised("UnboundLocalError", << "j" >>)
    ELSE LET r == CHOOSE x \in rows : \A y \in rows : x <= y
             c == CHOOSE x \in 1..Len(maze[r]) :
                      maze[r][x] = "S" /\ \A y \in 1..(x - 1) : maze[r][y] # "S"
         IN Returned(<< r - 1, c - 1 >>)

\* get_start_direction(maze, s_i, s_j): the neighbours are read west, south,
\* east, north, each with Python's indexing
get_start_direction(maze, s_i, s_j) ==
    LET west == tile(maze, s_i, s_j - 1)
        south == tile(maze, s_i + 1, s_j)
        east == tile(maze, s_i, s_j + 1)
        north == tile(maze, s_i - 1, s_j)
    IN
    IF west.exc # "" THEN west
    ELSE IF west.value \in {"-", "L", "F"} THEN Returned("w")
    ELSE IF south.exc # "" THEN south
    ELSE IF south.value \in {"|", "J", "L"} THEN Returned("s")
    ELSE IF east.exc # "" THEN east
    ELSE IF east.value \in {"-", "7", "J"} THEN Returned("e")
    ELSE IF north.exc # "" THEN north
    ELSE IF north.value \in {"|", "7", "F"} THEN Returned("n")
    ELSE Raised("Exception", << "Unable to determine a starting direction." >>)

\* move_indecies(i, j, direction)
move_indecies(i, j, d) ==
    IF d = "w" THEN Returned(<< i, j - 1 >>)
    ELSE IF d = "s" THEN Returned(<< i + 1, j >>)
    ELSE IF d = "e" THEN Returned(<< i, j + 1 >>)
    ELSE IF d = "n" THEN Returned(<< i - 1, j >>)
    ELSE Raised("ValueError", << "Unable to move indecies" >>)

\* the tile at row r, column c (from 0) of the loop around the rectangle
\* with corners (r1, c1) and (r2, c2); "." off the loop
loop_tile(r, c, r1, c1, r2, c2) ==
    IF r = r1 /\ c = c1 THEN "F"
    ELSE IF r = r1 /\ c = c2 THEN "7"
    ELSE IF r = r2 /\ c = c1 THEN "L"
    ELSE IF r = r2 /\ c = c2 THEN "J"
    ELSE IF (r = r1 \/ r = r2) /\ c1 < c /\ c < c2 THEN "-"
    ELSE IF (c = c1 \/ c = c2) /\ r1 < r /\ r < r2 THEN "|"
    ELSE "."

\* a grid of h rows and w columns with that loop and "S" at (sr, sc)
loop_maze(h, w, r1, c1, r2, c2, sr, sc) ==
    [r \in 1..h |-> [c \in 1..w |->
        IF r - 1 = sr /\ c - 1 = sc THEN "S"
        ELSE loop_tile(r - 1, c - 1, r1, c1, r2, c2)]]

\* every rectangular loop in every grid of 2 .. MaxSide rows and columns,
\* with "S" on every tile of the loop
MazeFiles ==
    { loop_maze(g[1], g[2], g[3], g[4], g[5], g[6], g[7], g[8]) :
        g \in { q \in (2..MaxSide) \X (2..MaxSide)
                      \X (0..(MaxSide - 1)) \X (0..(MaxSide - 1))
                      \X (0..(MaxSide - 1)) \X (0..(MaxSide - 1))
                      \X (0..(MaxSide - 1)) \X (0..(MaxSide - 1)) :
                  /\ q[3] < q[5] /\ q[5] < q[1]
                  /\ q[4] < q[6] /\ q[6] < q[2]
                  /\ q[7] < q[1] /\ q[8] < q[2]
                  /\ loop_tile(q[7], q[8], q[3], q[4], q[5], q[6]) # "." } }

InitMaze ==
    /\ lines \in MazeFiles
    /\ call = "max_maze_distance"
    /\ pc = "start"
    /\ raised = ""
    /\ message = <<>>
    /\ Day5Idle
    /\ OtherDaysIdle

\* i, j = find_start(maze)
FindStart ==
    /\ call = "max_maze_distance"
    /\ pc = "start"
    /\ LET r == find_start(lines) IN
       /\ raised' = r.exc
       /\ message' = r.msg
       /\ maze_i' = IF r.exc = "" THEN r.value[1] ELSE maze_i
       /\ maze_j' = IF r.exc = "" THEN r.value[2] ELSE maze_j
       /\ pc' = IF r.exc = "" THEN "direction" ELSE "raised"
    /\ UNCHANGED <<lines, call, day_5, day_8, day_6, day_4, direction,
                   maze_route, num_moves, distance, day_11>>

\* direction = get_start_direction(maze, i, j); maze_route = []; num_moves = 0
GetStartDirection ==
    /\ call = "max_maze_distance"
    /\ pc = "direction"
    /\ LET r == get_start_direction(lines, maze_i, maze_j) IN
       /\ raised' = r.exc
       /\ message' = r.msg
       /\ direction' = IF r.exc = "" THEN r.value ELSE direction
       /\ pc' = IF r.exc = "" THEN "while" ELSE "raised"
    /\ maze_route' = <<>>
    /\ num_moves' = 0
    /\ UNCHANGED <<lines, call, day_5, day_8, day_6, day_4, maze_i, maze_j,
                   distance, day_11>>

\* one pass of `while True`: the tile is appended to maze_route, the indices
\* move, and at "S" the route is closed and returned with ceil(num_moves / 2);
\* otherwise the direction is looked up for the tile
MoveIndecies ==
    /\ call = "max_maze_distance"
    /\ pc = "while"
    /\ num_moves < 2 * Len(lines) * Len(lines[1])
    /\ LET route == Append(maze_route, << maze_i, maze_j >>)
           moved == move_indecies(maze_i, maze_j, direction)
           at == IF moved.exc = "" THEN tile(lines, moved.value[1], moved.value[2])
                 ELSE moved
           known == /\ at.exc = ""
                    /\ at.value \in DOMAIN maze_symbols_lup
                    /\ direction \in DOMAIN maze_symbols_lup[at.value]
       IN
       /\ maze_i' = IF moved.exc = "" THEN moved.value[1] ELSE maze_i
       /\ maze_j' = IF moved.exc = "" THEN moved.value[2] ELSE maze_j
       /\ num_moves' = IF moved.exc = "" THEN num_moves + 1 ELSE num_moves
       /\ IF at.exc # ""
          THEN /\ raised' = at.exc
               /\ message' = at.msg
               /\ maze_route' = route
               /\ pc' = "raised"
               /\ UNCHANGED <<direction, distance>>
          ELSE IF at.value = "S"
          THEN /\ maze_route' = Append(route, route[1])
               /\ distance' = (num_moves + 1 + 1) \div 2
               /\ pc' = "return"
               /\ UNCHANGED <<direction, raised, message>>
          ELSE IF ~known
          THEN /\ raised' = "KeyError"
               /\ message' = << IF at.value \in DOMAIN maze_symbols_lup
                                THEN direction ELSE at.value >>
               /\ maze_route' = route
               /\ pc' = "raised"
               /\ UNCHANGED <<direction, distance>>
          ELSE /\ direction' = maze_symbols_lup[at.value][direction]
               /\ maze_route' = route
               /\ pc' = "while"
               /\ UNCHANGED <<distance, raised, message>>
    /\ UNCHANGED <<lines, call, day_5, day_8, day_6, day_4, day_11>>

NextMaze ==
    \/ FindStart
    \/ GetStartDirection
    \/ MoveIndecies

SpecMaze == InitMaze /\ [][NextMaze]_vars

-----------------------------------------------------------------------------
(* Day 11: the two totals of galaxy distances *)

\* most rows and most columns of an image
MaxImage == 3

\* most galaxies in an image
MaxGalaxies == 3

\* largest expansion_factor passed
MaxFactor == 3

abs(x) == IF x < 0 THEN 0 - x ELSE x

\* sorted(values, reverse=...) of a set of integers
RECURSIVE sorted(_, _)
sorted(values, reverse) ==
    IF values = {} THEN <<>>
    ELSE LET first == IF reverse
                      THEN CHOOSE x \in values : \A y \in values : y <= x
                      ELSE CHOOSE x \in values : \A y \in values : x <= y
         IN << first >> \o sorted(values \ {first}, reverse)

\* [x.start() for x in re.finditer(r"#", row)], as the set added to galaxy_cols
galaxy_positions(row) == { c - 1 : c \in { x \in 1..Len(row) : row[x] = "#" } }

\* galaxy_cols after the loop over the rows
galaxy_cols(image) == UNION { galaxy_positions(image[r]) : r \in 1..Len(image) }

\* all_cols = set(range(0, len(input_image[0])))
all_cols(image) == 0..(Len(image[1]) - 1)

\* the first loop of expand_universe: every row, and a row without "#" twice
RECURSIVE temp_image(_)
temp_image(image) ==
    IF image = <<>> THEN <<>>
    ELSE (IF galaxy_positions(Head(image)) = {}
          THEN << Head(image), Head(image) >>
          ELSE << Head(image) >>) \o temp_image(Tail(image))

\* expanded_row[:col] + "." + expanded_row[col:], for each col in turn
RECURSIVE expanded_row(_, _)
expanded_row(row, columns) ==
    IF columns = <<>> THEN row
    ELSE expanded_row(SubSeq(row, 1, Head(columns)) \o << "." >>
                          \o SubSeq(row, Head(columns) + 1, Len(row)),
                      Tail(columns))

\* Faulty variant of expand_universe: galaxy-free columns are not doubled.
expand_universe_rows_only(input_image) == temp_image(input_image)

\* expand_universe(input_image)
expand_universe(input_image) ==
    LET empty_columns == sorted(all_cols(input_image) \ galaxy_cols(input_image), TRUE)
        temp == temp_image(input_image)
    IN [r \in 1..Len(temp) |-> expanded_row(temp[r], empty_columns)]

\* find_galaxies(image): the coordinates (row, column) in the order of the
\* ids 0, 1, ...: row by row, and along each row
RECURSIVE find_galaxies_loop(_, _)
find_galaxies_loop(image, i) ==
    IF i > Len(image) THEN <<>>
    ELSE LET cols == sorted(galaxy_positions(image[i]), FALSE) IN
         [k \in 1..Len(cols) |-> << i - 1, cols[k] >>] \o find_galaxies_loop(image, i + 1)

find_galaxies(image) == find_galaxies_loop(image, 1)

\* manhattan_distance(a, b)
manhattan_distance(a, b) == abs(a[1] - b[1]) + abs(a[2] - b[2])

\* expansion_points(input_image): the rows without "#", and the columns
\* without "#" in any row, both ascending
expansion_points(input_image) ==
    << sorted({ r - 1 : r \in { x \in 1..Len(input_image) :
                                  galaxy_positions(input_image[x]) = {} } }, FALSE),
       sorted(all_cols(input_image) \ galaxy_cols(input_image), FALSE) >>

\* total += manhattan_distance(...) for id_1, id_2 in
\* itertools.combinations(keys, 2): (0, 1), (0, 2), ..., (1, 2), ...
RECURSIVE combinations_loop(_, _, _, _)
combinations_loop(galaxy_dict, id_1, id_2, sum) ==
    IF id_1 >= Len(galaxy_dict) THEN sum
    ELSE IF id_2 > Len(galaxy_dict)
    THEN combinations_loop(galaxy_dict, id_1 + 1, id_1 + 2, sum)
    ELSE combinations_loop(galaxy_dict, id_1, id_2 + 1,
             sum + manhattan_distance(galaxy_dict[id_1], galaxy_dict[id_2]))

\* total_galaxy_distances_fill_expansions(image)
total_galaxy_distances_fill_expansions(image) ==
    combinations_loop(find_galaxies(expand_universe(image)), 1, 2, 0)

\* sum(x > i for i in points)
sum_greater(x, points) == Cardinality({ k \in 1..Len(points) : x > points[k] })

\* expanded_galaxy_dict, with spaces = expansion_factor - 1 added per gap
expanded_galaxy_dict(image, spaces) ==
    LET unexpanded == find_galaxies(image)
        points == expansion_points(image)
    IN [id \in 1..Len(unexpanded) |->
           << unexpanded[id][1] + sum_greater(unexpanded[id][1], points[1]) * spaces,
              unexpanded[id][2] + sum_greater(unexpanded[id][2], points[2]) * spaces >>]

\* the images of 1 .. MaxImage rows and columns with at most MaxGalaxies "#"
Images ==
    { [r \in 1..g[1] |-> [c \in 1..g[2] |->
          IF << r, c >> \in g[3] THEN "#" ELSE "."]] :
        g \in { q \in (1..MaxImage) \X (1..MaxImage)
                      \X SUBSET ((1..MaxImage) \X (1..MaxImage)) :
                  /\ Cardinality(q[3]) <= MaxGalaxies
                  /\ \A t \in q[3] : t[1] <= q[1] /\ t[2] <= q[2] } }

InitGalaxy ==
    /\ lines \in Images
    /\ \/ /\ call = "total_galaxy_distances_fill_expansions"
          /\ expansion_factor = 0
       \/ /\ call = "total_galaxy_distances_calculated_expansions"
          /\ expansion_factor \in 1..MaxFactor
    /\ pc = "start"
    /\ raised = ""
    /\ message = <<>>
    /\ total = 0
    /\ Day5Idle
    /\ Day8Idle
    /\ Day6Idle
    /\ Day4Idle
    /\ Day10Idle

\* total_galaxy_distances_fill_expansions, whole
CallFill ==
    /\ call = "total_galaxy_distances_fill_expansions"
    /\ pc = "start"
    /\ total' = total_galaxy_distances_fill_expansions(lines)
    /\ pc' = "return"
    /\ UNCHANGED <<lines, call, raised, message, day_5, day_8, day_6, day_4,
                   day_10, expansion_factor>>

\* the checks of expansion_factor, and `expansion_factor -= 1`
CheckFactor ==
    /\ call = "total_galaxy_distances_calculated_expansions"
    /\ pc = "start"
    /\ IF expansion_factor < 2
       THEN /\ raised' = "ValueError"
            /\ message' = << "Expansion factor must be greater than 2." >>
            /\ pc' = "raised"
            /\ UNCHANGED expansion_factor
       ELSE /\ expansion_factor' = expansion_factor - 1
            /\ pc' = "expand"
            /\ UNCHANGED <<raised, message>>
    /\ UNCHANGED <<lines, call, day_5, day_8, day_6, day_4, day_10, total>>

\* the rest of total_galaxy_distances_calculated_expansions
CallCalculated ==
    /\ call = "total_galaxy_distances_calculated_expansions"
    /\ pc = "expand"
    /\ total' = combinations_loop(expanded_galaxy_dict(lines, expansion_factor), 1, 2, 0)
    /\ pc' = "return"
    /\ UNCHANGED <<lines, call, raised, message, day_5, day_8, day_6, day_4,
                   day_10, expansion_factor>>

NextGalaxy ==
    \/ CallFill
    \/ CheckFactor
    \/ CallCalculated

SpecGalaxy == InitGalaxy /\ [][NextGalaxy]_vars

-----------------------------------------------------------------------------
(* Properties: definitions they share *)

\* the seven tables in the order the puzzle chains them
pipeline_order ==
    << "seed-to-soil map:", "soil-to-fertilizer map:", "fertilizer-to-water map:",
       "water-to-light map:", "light-to-temperature map:",
       "temperature-to-humidity map:", "humidity-to-location map:" >>

table_of(name) == build_map(lines, name).value

Minimum(S) == CHOOSE m \in S : \A k \in S : m <= k

\* v through the tables names[i], names[i+1], ... forward, each output the
\* input of the next
RECURSIVE forward_from(_, _, _)
forward_from(names, i, v) ==
    IF i > Len(names) THEN v
    ELSE forward_from(names, i + 1, forward_translate(table_of(names[i]), v))

forward_pipeline(v) == forward_from(pipeline_order, 1, v)

\* v through the tables names[i], names[i-1], ..., names[1] in reverse
RECURSIVE reverse_from(_, _, _)
reverse_from(names, i, v) ==
    IF i < 1 THEN v
    ELSE reverse_from(names, i - 1, reverse_translate(table_of(names[i]), v))

reverse_pipeline(v) == reverse_from(pipeline_order, Len(pipeline_order), v)

\* the numbers of line 0 taken in pairs (start, length)
seed_numbers == get_seeds(lines[1])

in_some_seed_range(x) ==
    \E k \in 1..(Len(seed_numbers) \div 2) :
        /\ seed_numbers[2 * k - 1] <= x
        /\ x <= seed_numbers[2 * k - 1] + seed_numbers[2 * k] - 1

seeds_in_ranges ==
    UNION { seed_numbers[2 * k - 1] ..
                (seed_numbers[2 * k - 1] + seed_numbers[2 * k] - 1) :
            k \in 1..(Len(seed_numbers) \div 2) }

lookup_returned == call = "get_seed_location_lookup" /\ pc = "return"
scan_returned == call = "reverse_map_to_min_location" /\ pc = "return"

-----------------------------------------------------------------------------
(* C1: for the published example almanac the minimum of the values of      *)
(* get_seed_location_lookup is 35 and reverse_map_to_min_location returns  *)
(* 46.                                                                     *)
C1_ExampleMinima ==
    lines = example_lines =>
        /\ lookup_returned =>
               Minimum({ seed_location_lookup[s] :
                           s \in DOMAIN seed_location_lookup }) = 35
        /\ scan_returned => location = 46

C1_Witness == lines = example_lines /\ scan_returned /\ location = 46

(* C2: reverse_map_to_min_location returns exactly the minimum, over every *)
(* seed in a seed range, of the forward pipeline value of that seed.       *)
C2_ScanReturnsForwardMinimum ==
    (scan_returned /\ seeds_in_ranges # {}) =>
        location = Minimum({ forward_pipeline(s) : s \in seeds_in_ranges })

(* C3: a returned location L is >= 0, its reverse translation through the  *)
(* seven tables (humidity-to-location first, seed-to-soil last) lies in a  *)
(* seed range with inclusive bounds, and no candidate below L does.        *)
C3_ScanReturnsFirstHit ==
    scan_returned =>
        /\ location >= 0
        /\ in_some_seed_range(reverse_pipeline(location))
        /\ \A c \in 0..(location - 1) : ~in_some_seed_range(reverse_pipeline(c))

C3_Witness ==
    /\ scan_returned
    /\ location > 0
    /\ reverse_pipeline(location) # location

(* C6: for every seed of line 0, get_seed_location_lookup maps the seed to *)
(* the result of one forward translation per table, in the order           *)
(* seed-to-soil, ..., humidity-to-location, each output being the next     *)
(* table's input.                                                          *)
C6_LookupIsForwardPipeline ==
    lookup_returned =>
        /\ DOMAIN seed_location_lookup =
               { seed_numbers[k] : k \in 1..Len(seed_numbers) }
        /\ \A s \in DOMAIN seed_location_lookup :
               seed_location_lookup[s] = forward_pipeline(s)

C6_Witness ==
    /\ lookup_returned
    /\ \E s \in DOMAIN seed_location_lookup :
           LET soil == forward_translate(table_of(pipeline_order[1]), s) IN
           /\ soil # s
           /\ seed_location_lookup[s] # soil

\* the headers of the table blocks in the order in which the text has them
RECURSIVE text_order(_, _)
text_order(ls, i) ==
    IF i > Len(ls) THEN <<>>
    ELSE IF \E k \in 1..Len(pipeline_order) : ls[i] = << pipeline_order[k] >>
         THEN << ls[i][1] >> \o text_order(ls, i + 1)
         ELSE text_order(ls, i + 1)

-----------------------------------------------------------------------------
(* Properties of one translation step (SpecTable) *)

rules == maps[1][2]

source_has(r, v) == r[1] <= v /\ v <= r[2]
destination_has(r, v) == r[3] <= v /\ v <= r[4]

some_source_has(v) == \E i \in 1..Len(rules) : source_has(rules[i], v)
some_destination_has(v) == \E i \in 1..Len(rules) : destination_has(rules[i], v)

\* position of the first rule in table order whose source range holds v
first_by_source(v) ==
    CHOOSE i \in 1..Len(rules) :
        /\ source_has(rules[i], v)
        /\ \A j \in 1..(i - 1) : ~source_has(rules[j], v)

first_by_destination(v) ==
    CHOOSE i \in 1..Len(rules) :
        /\ destination_has(rules[i], v)
        /\ \A j \in 1..(i - 1) : ~destination_has(rules[j], v)

destinations_disjoint ==
    \A i, j \in 1..Len(rules) :
        i # j => \A v \in rules[i][3]..rules[i][4] : ~destination_has(rules[j], v)

(* C4: when some rule's source range holds v, the forward translation is   *)
(* min_destination + (v - min_source) of the first such rule in table      *)
(* order, also when several source ranges hold v.                          *)
C4_ForwardFirstMatch ==
    (pc = "forward" /\ some_source_has(previous)) =>
        LET r == rules[first_by_source(previous)] IN
        current[1] = r[3] + (previous - r[1])

C4_Witness ==
    /\ pc = "forward"
    /\ \E i, j \in 1..Len(rules) :
           /\ i < j
           /\ source_has(rules[i], previous)
           /\ source_has(rules[j], previous)
           /\ rules[i][3] - rules[i][1] # rules[j][3] - rules[j][1]

(* C5: when no rule's inclusive source range holds v, the forward          *)
(* translation is v, also for a table without rules.                       *)
C5_ForwardPassThrough ==
    (pc = "forward" /\ ~some_source_has(previous)) => current[1] = previous

C5_Witness ==
    /\ pc = "forward"
    /\ rules # <<>>
    /\ ~some_source_has(previous)
    /\ previous > 0

(* C8: when some rule's destination range holds v, the reverse translation *)
(* is min_source + (v - min_destination) of the first such rule in table   *)
(* order; when none does, it is v.                                         *)
C8_ReverseFirstMatch ==
    pc = "reverse" =>
        IF some_destination_has(previous)
        THEN LET r == rules[first_by_destination(previous)] IN
             current[1] = r[1] + (previous - r[3])
        ELSE current[1] = previous

C8_Witness ==
    /\ pc = "reverse"
    /\ \E i, j \in 1..Len(rules) :
           /\ i < j
           /\ destination_has(rules[i], previous)
           /\ destination_has(rules[j], previous)
           /\ rules[i][1] - rules[i][3] # rules[j][1] - rules[j][3]

(* C9 as stated: for v in the source range of some rule, the reverse       *)
(* translation of the forward translation of v is v.                       *)
C9_RoundTripInsideSources ==
    (pc = "round_trip" /\ some_source_has(previous)) => back[1] = previous

(* C9 amended: for v in the source range of some rule, the reverse         *)
(* translation of the forward translation of v is v provided no rule       *)
(* listed before the rule that translated v has a destination range that   *)
(* holds the translated value; this is so whenever the destination ranges  *)
(* of the table's rules are pairwise disjoint.                             *)
C9_RoundTripFirstDestination ==
    (pc = "round_trip" /\ some_source_has(previous)) =>
        /\ (\A j \in 1..(first_by_source(previous) - 1) :
                ~destination_has(rules[j], current[1]))
               => back[1] = previous
        /\ destinations_disjoint => back[1] = previous

C9_Witness ==
    /\ pc = "round_trip"
    /\ some_source_has(previous)
    /\ first_by_source(previous) > 1
    /\ destinations_disjoint
    /\ current[1] # previous
    /\ back[1] = previous

(* C10 as stated: for v in no rule's source range, the reverse translation *)
(* of the forward translation of v is v.                                   *)
C10_RoundTripOutsideSources ==
    (pc = "round_trip" /\ ~some_source_has(previous)) => back[1] = previous

(* C10 amended: for v in no rule's source range and in no rule's           *)
(* destination range, the reverse translation of the forward translation   *)
(* of v is v.                                                              *)
C10_RoundTripOutsideBoth ==
    (pc = "round_trip" /\ ~some_source_has(previous)
         /\ ~some_destination_has(previous)) => back[1] = previous

C10_Witness ==
    /\ pc = "round_trip"
    /\ rules # <<>>
    /\ ~some_source_has(previous)
    /\ ~some_destination_has(previous)
    /\ back[1] = previous

-----------------------------------------------------------------------------
(* Properties of build_map (SpecBuild) *)

wanted == map_names[map_i + 1]

header_present == \E i \in 1..Len(lines) : lines[i] = << wanted >>

header_index ==
    CHOOSE i \in 1..Len(lines) :
        /\ lines[i] = << wanted >>
        /\ \A j \in 1..(i - 1) : lines[j] # << wanted >>

\* the first blank line after the header, or the position after the last line
block_stop ==
    CHOOSE i \in (header_index + 1)..(Len(lines) + 1) :
        /\ i = Len(lines) + 1 \/ lines[i] = <<>>
        /\ \A j \in (header_index + 1)..(i - 1) : lines[j] # <<>>

\* the lines between the header and block_stop
block_rows ==
    [k \in 1..(block_stop - header_index - 1) |-> lines[header_index + k]]

\* how many integers a line holds: its runs of digits
count_numbers(line) ==
    Cardinality({ i \in 1..Len(line) :
                    line[i] \in Digit /\ (i = 1 \/ line[i - 1] \notin Digit) })

\* the line is dest, src and len as written, and what they are
is_rule_line(line) == \E t \in RuleLines : line = number_text(t)
triple_of(line) == CHOOSE t \in RuleLines : line = number_text(t)

table == maps[1][2]

(* C11: build_map turns every rule line (dest, src, len) of the named      *)
(* table into (min_source, max_source, min_destination, max_destination) = *)
(* (src, src + len - 1, dest, dest + len - 1), in the order of the lines.  *)
C11_RulesFromLines ==
    (pc = "built" /\ \A k \in 1..Len(block_rows) : is_rule_line(block_rows[k])) =>
        /\ Len(table) = Len(block_rows)
        /\ \A k \in 1..Len(block_rows) :
               LET t == triple_of(block_rows[k]) IN
               table[k] = << t[2], t[2] + t[3] - 1, t[1], t[1] + t[3] - 1 >>

C11_Witness ==
    /\ pc = "built"
    /\ Len(block_rows) = 2
    /\ \A k \in 1..Len(block_rows) : is_rule_line(block_rows[k])
    /\ triple_of(block_rows[1])[1] # triple_of(block_rows[1])[2]
    /\ table[1] # table[2]
(* C12: when no line equals the table's header, build_map raises           *)
(* ValueError "Unable to find <map_name> in almanac." and returns no table.*)
C12_MissingHeaderRaises ==
    (pc # "build_map" /\ ~header_present) =>
        /\ pc = "raised"
        /\ raised = "ValueError"
        /\ message = << "Unable to find ", wanted, " in almanac." >>
        /\ maps = <<>>

C12_Witness ==
    /\ pc = "raised"
    /\ ~header_present
    /\ \E i \in 1..Len(lines) : is_rule_line(lines[i])

C14_ReturnsBlockRules ==
    (pc # "build_map" /\ header_present
         /\ \A k \in 1..Len(block_rows) : count_numbers(block_rows[k]) = 3) =>
        /\ pc = "built"
        /\ Len(table) = Len(block_rows)
        /\ \A k \in 1..Len(block_rows) :
               is_rule_line(block_rows[k]) =>
                   LET t == triple_of(block_rows[k]) IN
                   table[k] = << t[2], t[2] + t[3] - 1, t[1], t[1] + t[3] - 1 >>

(* C19 as stated: every rule of a returned table has max_source >=         *)
(* min_source, for every well-formed rule line, len = 0 included.          *)
C19_SourceEndNotBelowStart ==
    pc = "built" => \A k \in 1..Len(table) : table[k][2] >= table[k][1]

(* C19 amended: every rule of a returned table has max_source =            *)
(* min_source + len - 1, so max_source >= min_source exactly when len >= 1 *)
(* and max_source = min_source - 1 when len = 0.                           *)
C19_SourceEndFromLength ==
    (pc = "built" /\ \A k \in 1..Len(block_rows) : is_rule_line(block_rows[k])) =>
        \A k \in 1..Len(table) :
            LET len == triple_of(block_rows[k])[3] IN
            /\ table[k][2] = table[k][1] + len - 1
            /\ table[k][2] >= table[k][1] <=> len >= 1
            /\ len = 0 => table[k][2] = table[k][1] - 1

C19_Witness ==
    /\ pc = "built"
    /\ Len(table) = 2
    /\ \A k \in 1..Len(block_rows) : is_rule_line(block_rows[k])
    /\ triple_of(block_rows[1])[3] = 0
    /\ triple_of(block_rows[2])[3] > 1

-----------------------------------------------------------------------------
(* The calls and the single-table translations together *)

InitAll == Init \/ InitTable

NextAll == Next \/ NextTable

SpecAll == InitAll /\ [][NextAll]_vars

-----------------------------------------------------------------------------
(* Properties of the calls on faulty input and of the scan (Spec) *)

has_header(name) == \E i \in 1..Len(lines) : lines[i] = << name >>

header_of(name) ==
    CHOOSE i \in 1..Len(lines) :
        /\ lines[i] = << name >>
        /\ \A j \in 1..(i - 1) : lines[j] # << name >>

\* the positions of the lines between the header of name and the first blank
\* line or the end of input after it
rows_of(name) ==
    LET first == header_of(name) + 1
        blanks == { j \in first..Len(lines) : lines[j] = <<>> }
    IN { i \in first..Len(lines) : \A j \in blanks : i < j }

\* a header is missing or a line of a block does not hold three integers
almanac_faulty ==
    \E k \in 1..Len(pipeline_order) :
        \/ ~has_header(pipeline_order[k])
        \/ \E i \in rows_of(pipeline_order[k]) : count_numbers(lines[i]) # 3

translating ==
    pc \in {"for_seed", "for_map", "store", "return", "while", "rev_map", "check"}

(* C15: with a header missing or a rule line malformed,                    *)
(* get_seed_location_lookup returns no lookup, not even entries of the     *)
(* tables before the faulty one, and reverse_map_to_min_location raises    *)
(* before any candidate is scanned: all tables are built before the first  *)
(* translation.                                                            *)
C15_FaultyAlmanacNoResult ==
    almanac_faulty =>
        /\ ~translating
        /\ pc \in {"start", "build", "raised"}
        /\ seed_location_lookup = <<>>
        /\ previous = 0
        /\ location = 0
        /\ pc = "build" => \E k \in (map_i + 1)..Len(build_order) :
               build_map(lines, build_order[k]).exc # ""

C15_Witness ==
    /\ almanac_faulty
    /\ call = "get_seed_location_lookup"
    /\ pc = "raised"
    /\ Len(maps) = Len(pipeline_order) - 1
    /\ seeds # <<>>

\* no candidate that the scan is followed to reverse-translates into a seed
\* range (above scan_limit candidates translate to themselves, outside every
\* seed range)
never_hits ==
    \A c \in 0..scan_limit(lines) : ~in_some_seed_range(reverse_pipeline(c))

scanning ==
    call = "reverse_map_to_min_location" /\ pc \in {"while", "rev_map", "check"}

\* one step of the scan that stays in the loop: no return, no exception, and
\* location moves up by 1 at each range check and nowhere else
scan_continues ==
    /\ scanning'
    /\ raised' = ""
    /\ pc = "check" => (location' = location + 1 /\ not_in_seeds')
    /\ pc # "check" => location' = location

(* C16: when no candidate location reverse-translates into a seed range    *)
(* (a seeds line without numbers, seed ranges of length 0), the scan never *)
(* returns and never raises: each step stays in the loop and each range    *)
(* check moves location up by 1. Stated by contraposition: a step of the   *)
(* scan that does anything else is taken only when some candidate hits.    *)
C16_ScanNeverReturns ==
    [][(scanning /\ ~scan_continues) => ~never_hits]_vars

C16_Witness ==
    /\ scanning
    /\ pc = "check"
    /\ location = scan_limit(lines)
    /\ seed_ranges # <<>>
    /\ never_hits

(* C17: with an odd count of numbers on the seeds line, get_seed_range     *)
(* (and so reverse_map_to_min_location) raises instead of returning seed   *)
(* ranges without the trailing number.                                     *)
C17_OddSeedsRaise ==
    (call = "reverse_map_to_min_location" /\ pc # "start"
         /\ Len(seed_numbers) % 2 = 1) =>
        /\ pc = "raised"
        /\ raised = "IndexError"
        /\ seed_ranges = <<>>
        /\ maps = <<>>
        /\ location = 0

C17_Witness ==
    /\ call = "reverse_map_to_min_location"
    /\ pc = "raised"
    /\ Len(seed_numbers) = 3

(* C18: get_seed_range gives one range (start, start + length - 1) per     *)
(* pair of seed numbers, in order, and the scan takes x as inside a range  *)
(* exactly when start <= x <= start + length - 1, so a range of length 0   *)
(* holds no value.                                                         *)
C18_SeedRangesInclusive ==
    (call = "reverse_map_to_min_location" /\ pc # "start"
         /\ Len(seed_numbers) % 2 = 0) =>
        /\ seed_ranges =
               [k \in 1..(Len(seed_numbers) \div 2) |->
                   << seed_numbers[2 * k - 1],
                      seed_numbers[2 * k - 1] + seed_numbers[2 * k] - 1 >>]
        /\ pc = "return" => in_some_seed_range(previous)
        /\ (pc = "while" /\ location > 0) => ~in_some_seed_range(previous)
        /\ \A k \in 1..Len(seed_ranges) :
               seed_numbers[2 * k] = 0 =>
                   ~in_seed_ranges(<< seed_ranges[k] >>, previous)

C18_Witness ==
    /\ call = "reverse_map_to_min_location"
    /\ pc = "return"
    /\ location > 0
    /\ Len(seed_ranges) = 2
    /\ seed_numbers[2] = 0
    /\ previous = seed_numbers[1]
    /\ ~in_seed_ranges(<< seed_ranges[1] >>, previous)

-----------------------------------------------------------------------------
(* Totality of the forward translation (SpecAll) *)

\* v is x itself or the image of x under some rule of rows holding x
forward_value(rows, x, v) ==
    \/ v = x
    \/ \E i \in 1..Len(rows) :
           /\ rows[i][1] <= x /\ x <= rows[i][2]
           /\ v = rows[i][3] + (x - rows[i][1])

(* C20: the forward translation through one built table and the forward    *)
(* pipeline over the seven built tables never raise and always give an     *)
(* integer, for every input value and table content (empty tables,         *)
(* overlapping rules, rules of length 0): the translation step can always  *)
(* be taken, its result is the input or a rule's image of it, and every    *)
(* seed gets a location.                                                   *)
C20_ForwardTotal ==
    /\ pc = "table" => ENABLED ForwardOnce
    /\ pc = "forward" =>
           /\ raised = ""
           /\ Len(current) = 1
           /\ current[1] \in Int
           /\ forward_value(maps[1][2], previous, current[1])
    /\ (call = "get_seed_location_lookup" /\ pc \in {"for_seed", "for_map", "store"}) =>
           /\ ENABLED Next
           /\ raised = ""
           /\ previous \in Int
    /\ (call = "get_seed_location_lookup" /\ pc = "raised") =>
           Len(maps) < Len(map_names)
    /\ (call = "get_seed_location_lookup" /\ pc = "return") =>
           /\ raised = ""
           /\ DOMAIN seed_location_lookup = {seeds[k] : k \in 1..Len(seeds)}
           /\ \A x \in DOMAIN seed_location_lookup :
                  seed_location_lookup[x] \in Int

\* a table whose first rule has length 0 and starts at the input, which no
\* rule of the table holds
C20_Witness ==
    /\ pc = "forward"
    /\ Len(maps[1][2]) >= 1
    /\ maps[1][2][1][2] < maps[1][2][1][1]
    /\ previous = maps[1][2][1][1]
    /\ current = << previous >>

-----------------------------------------------------------------------------
(* What the translation loops read and write (Spec) *)

(* C21: once the tables and the seeds or seed ranges are built, no step of *)
(* the per-seed forward translation and no step of the reverse scan        *)
(* changes the input lines, a table's rule list, the seeds or the seed     *)
(* ranges; only previous, location, not_in_seeds, the loop positions and   *)
(* the result lookup change.                                               *)
C21_BuiltDataReadOnly ==
    [][translating =>
          /\ lines' = lines
          /\ maps' = maps
          /\ seeds' = seeds
          /\ seed_ranges' = seed_ranges
          /\ call' = call
          /\ raised' = raised
          /\ message' = message]_vars

\* a lookup run that has translated a seed through a table with rules and
\* stored a location that differs from the seed
C21_Witness ==
    /\ lookup_returned
    /\ \E k \in 1..Len(maps) : maps[k][2] # <<>>
    /\ \E x \in DOMAIN seed_location_lookup : seed_location_lookup[x] # x

\* v through the seven tables built from the lines ls
RECURSIVE pipeline_value(_, _, _)
pipeline_value(ls, i, v) ==
    IF i > Len(pipeline_order) THEN v
    ELSE pipeline_value(ls, i + 1,
             forward_translate(build_map(ls, pipeline_order[i]).value, v))

\* the almanacs with the blocks of lines under any seeds line
same_blocks ==
    { ls \in Almanacs : Tail(ls) = Tail(lines) }

(* C22: running the forward pipeline twice on the same lines and seed      *)
(* gives the same value, and the value of a seed does not depend on the    *)
(* other seeds of the seeds line or on their order: a seed that comes      *)
(* again on the line gets the location it got before, and the location of  *)
(* a seed is the one it has under every other seeds line over the same     *)
(* blocks.                                                                 *)
C22_SeedValueIndependent ==
    /\ (call = "get_seed_location_lookup" /\ pc = "store"
            /\ seeds[seed_i + 1] \in DOMAIN seed_location_lookup) =>
           previous = seed_location_lookup[seeds[seed_i + 1]]
    /\ lookup_returned =>
           \A ls \in same_blocks :
               \A k \in 1..Len(get_seeds(ls[1])) :
                   LET x == get_seeds(ls[1])[k] IN
                   x \in DOMAIN seed_location_lookup =>
                       seed_location_lookup[x] = pipeline_value(ls, 1, x)

\* the seed 1 comes twice on the line, after another seed, and is moved by
\* a rule
C22_Witness ==
    /\ call = "get_seed_location_lookup"
    /\ pc = "store"
    /\ seed_i > 1
    /\ seeds[seed_i + 1] \in DOMAIN seed_location_lookup
    /\ seeds[seed_i + 1] # seeds[seed_i]
    /\ previous # seeds[seed_i + 1]

-----------------------------------------------------------------------------
(* Termination of the scan (FairScan) *)

\* the candidate c reverse-translates into a seed range
candidate_hits(c) == in_some_seed_range(reverse_pipeline(c))

scan_started ==
    call = "reverse_map_to_min_location" /\ pc = "while" /\ location = 0

(* C28: when some candidate c >= 0 reverse-translates into a seed range,   *)
(* the scan terminates; location starts at 0 and moves by +1 at a range    *)
(* check with no hit and at no other step, so the candidates are 0, 1, 2,  *)
(* ... in order; no candidate below location hits, so the scan is never    *)
(* past c, makes at most c + 1 iterations and returns at most c.           *)
C28_ScanTerminates ==
    /\ [](scan_started => (previous = 0 /\ not_in_seeds))
    /\ []((call = "reverse_map_to_min_location" /\ pc \in {"while", "return"}) =>
              \A c \in 0..(location - 1) : ~candidate_hits(c))
    /\ [][scanning =>
             /\ location' \in {location, location + 1}
             /\ location' = location + 1 <=> (pc = "check" /\ pc' = "while")
             /\ pc = "while" => previous' = location]_vars
    /\ (scan_started /\ ~never_hits) ~> scan_returned

\* a scan that returned after more than two iterations
C28_Witness ==
    /\ scan_returned
    /\ location >= 2
    /\ candidate_hits(location)

-----------------------------------------------------------------------------
(* Tables that are permutations (Spec) *)

range_of(lo, hi) == lo..hi

\* the rules of rows have pairwise disjoint source ranges, pairwise disjoint
\* destination ranges, and the sources together are the destinations together
table_permutes(rows) ==
    /\ \A i, j \in 1..Len(rows) :
           i # j =>
               /\ range_of(rows[i][1], rows[i][2]) \cap
                      range_of(rows[j][1], rows[j][2]) = {}
               /\ range_of(rows[i][3], rows[i][4]) \cap
                      range_of(rows[j][3], rows[j][4]) = {}
    /\ UNION { range_of(rows[i][1], rows[i][2]) : i \in 1..Len(rows) } =
           UNION { range_of(rows[i][3], rows[i][4]) : i \in 1..Len(rows) }

all_tables_permute ==
    \A k \in 1..Len(pipeline_order) : table_permutes(table_of(pipeline_order[k]))

(* C29: when in each of the seven tables the rules have pairwise disjoint  *)
(* source ranges, pairwise disjoint destination ranges and the same union  *)
(* of sources and of destinations, the reverse pipeline is the inverse of  *)
(* the forward pipeline for every value >= 0, and                          *)
(* reverse_map_to_min_location returns the minimum forward-pipeline value  *)
(* over the seeds of the seed ranges.                                      *)
C29_PermutationTablesInvert ==
    (pc = "return" /\ all_tables_permute) =>
        /\ \A v \in 0..scan_limit(lines) :
               /\ reverse_pipeline(forward_pipeline(v)) = v
               /\ forward_pipeline(reverse_pipeline(v)) = v
        /\ (scan_returned /\ seeds_in_ranges # {}) =>
               /\ location \in { forward_pipeline(x) : x \in seeds_in_ranges }
               /\ \A x \in seeds_in_ranges : location <= forward_pipeline(x)

\* a returned scan over permutation tables that move the returned location
C29_Witness ==
    /\ scan_returned
    /\ all_tables_permute
    /\ lines # example_lines
    /\ reverse_pipeline(location) # location
    /\ \E x \in seeds_in_ranges : forward_pipeline(x) > location

-----------------------------------------------------------------------------
(* Widths of the ranges of a rule (SpecTable) *)

(* C30: every rule built by build_map has a destination range as wide as   *)
(* its source range; a value forward-translated by a rule lies in that     *)
(* rule's destination range, and a value reverse-translated by a rule lies *)
(* in that rule's source range.                                            *)
C30_RuleRangesSameWidth ==
    /\ \A i \in 1..Len(rules) :
           rules[i][4] - rules[i][3] = rules[i][2] - rules[i][1]
    /\ (pc = "forward" /\ some_source_has(previous)) =>
           destination_has(rules[first_by_source(previous)], current[1])
    /\ (pc = "reverse" /\ some_destination_has(previous)) =>
           source_has(rules[first_by_destination(previous)], current[1])

\* a value at the upper end of a source range of several values, moved to
\* the upper end of the destination range
C30_Witness ==
    /\ pc = "forward"
    /\ some_source_has(previous)
    /\ LET r == rules[first_by_source(previous)] IN
       /\ r[1] < r[2]
       /\ previous = r[2]
       /\ current[1] = r[4]
       /\ current[1] # previous

-----------------------------------------------------------------------------
(* Day 8: the steps from AAA to ZZZ (SpecCamel) *)

\* the node after k commands from AAA, the command line repeated
RECURSIVE node_after(_)
node_after(k) ==
    IF k = 0 THEN "AAA"
    ELSE get_node_map(node_lines(lines))[node_after(k - 1)]
             [map_directions(lines[1])[((k - 1) % Len(lines[1])) + 1] + 1]

reaches_ZZZ == \E k \in 0..MaxSteps : node_after(k) = "ZZZ"

\* the number of commands followed up to the first step at ZZZ
steps_to_ZZZ ==
    CHOOSE k \in 0..MaxSteps :
        /\ node_after(k) = "ZZZ"
        /\ \A m \in 0..(k - 1) : node_after(m) # "ZZZ"

(* C23: number_camel_steps returns the number of commands followed from    *)
(* AAA up to the first step at which the node is ZZZ, also when ZZZ is     *)
(* first reached part-way through a pass over the command line.            *)
C23_ReturnsStepsToZZZ ==
    (call = "number_camel_steps" /\ pc = "return") =>
        /\ reaches_ZZZ
        /\ num_steps = steps_to_ZZZ

-----------------------------------------------------------------------------
(* Day 6: the count from the roots against the count by trial (SpecRace) *)

race_times == race_numbers(lines[1], single_race)
race_dists == race_numbers(lines[2], single_race)

roots_returned ==
    call = "winning_button_press_combinations" /\ pc = "return"

(* C24: for every race for which a result is returned,                     *)
(* winning_button_press_combinations gives the count of                    *)
(* winning_button_press_combinations_brute_force, the number of integers b *)
(* in 0..T with b * (T - b) > D, also when b * (T - b) = D for an integer  *)
(* b.                                                                      *)
C24_SameCountAsBruteForce ==
    roots_returned =>
        \A k \in 1..Len(race_times) :
            /\ default_get(broken_records, race_times[k]) =
                   default_get(winning_button_press_combinations_brute_force(
                                   lines, single_race).value, race_times[k])
            /\ (\A m \in 1..Len(race_times) : m # k => race_times[m] # race_times[k]) =>
                   broken_records[race_times[k]] =
                       Cardinality({ b \in 0..race_times[k] :
                                       b * (race_times[k] - b) > race_dists[k] })

-----------------------------------------------------------------------------
(* Day 4: the number of cards (SpecCards) *)

\* the matches of card c, as parsed from its line
matches_of(c) == matching_nums[c][2]

\* the cards are 1 .. n in line order and no card wins a card after card n
cards_self_contained ==
    /\ Len(matching_nums) = Len(lines)
    /\ \A c \in 1..Len(lines) :
           /\ matching_nums[c][1] = c
           /\ c + matches_of(c) <= Len(lines)

\* 1 for the original plus the numbers of the earlier cards that win card id
RECURSIVE cards_owned(_)
cards_owned(id) ==
    LET winners == { c \in 1..(id - 1) : id <= c + matches_of(c) }
        RECURSIVE sum_owned(_)
        sum_owned(S) ==
            IF S = {} THEN 0
            ELSE LET c == CHOOSE x \in S : TRUE IN
                 cards_owned(c) + sum_owned(S \ {c})
    IN 1 + sum_owned(winners)

(* C25: for cards 1..n of which none wins a card after card n,             *)
(* calculate_number_of_cards terminates with, for each card id, 1 plus the *)
(* sum of the counts of every earlier card c with c < id <= c +            *)
(* matches(c); the list copies_ids, which grows while it is iterated, is   *)
(* iterated to its end.                                                    *)
C25_CardCounts ==
    (call = "calculate_number_of_cards" /\ pc # "start" /\ cards_self_contained) =>
        /\ pc # "raised"
        /\ (pc = "for_card" /\ card_i = 0) =>
               \A c \in 1..Len(lines) :
                   matching_nums[c] = << calculate_game_score(lines[c]).value[1],
                                        calculate_game_score(lines[c]).value[3] >>
        /\ pc = "return" \/ ENABLED NextCards
        /\ pc = "count" => copy_i = Len(copies_ids)
        /\ pc = "return" =>
               /\ DOMAIN counts = 1..Len(lines)
               /\ \A id \in 1..Len(lines) : counts[id] = cards_owned(id)

\* three cards: card 1 wins cards 2 and 3, card 2 wins card 3, so card 3 is
\* held four times
C25_Witness ==
    /\ call = "calculate_number_of_cards"
    /\ pc = "return"
    /\ cards_self_contained
    /\ Len(lines) >= 3
    /\ matches_of(1) = 2
    /\ matches_of(2) = 1
    /\ counts[3] = 4

-----------------------------------------------------------------------------
(* Day 10: the route around the loop (SpecMaze) *)

\* the tiles of the loop: every tile of a drawn maze that is not "."
loop_tiles ==
    { t \in (0..(Len(lines) - 1)) \X (0..(Len(lines[1]) - 1)) :
        lines[t[1] + 1][t[2] + 1] # "." }

start_tile == CHOOSE t \in loop_tiles : lines[t[1] + 1][t[2] + 1] = "S"

\* the sides on which the pipe of a tile is open; "S" is open to the loop
open_sides(t) ==
    LET symbol == lines[t[1] + 1][t[2] + 1] IN
    CASE symbol = "|" -> {"n", "s"}
      [] symbol = "-" -> {"e", "w"}
      [] symbol = "L" -> {"n", "e"}
      [] symbol = "J" -> {"n", "w"}
      [] symbol = "7" -> {"s", "w"}
      [] symbol = "F" -> {"s", "e"}
      [] OTHER -> {"n", "e", "s", "w"}

\* a and b are adjacent tiles and the pipes of both are open to each other
joined(a, b) ==
    \/ a[1] = b[1] /\ a[2] + 1 = b[2] /\ "e" \in open_sides(a) /\ "w" \in open_sides(b)
    \/ a[1] = b[1] /\ a[2] - 1 = b[2] /\ "w" \in open_sides(a) /\ "e" \in open_sides(b)
    \/ a[2] = b[2] /\ a[1] + 1 = b[1] /\ "s" \in open_sides(a) /\ "n" \in open_sides(b)
    \/ a[2] = b[2] /\ a[1] - 1 = b[1] /\ "n" \in open_sides(a) /\ "s" \in open_sides(b)

(* C26: for every maze whose "S" lies on a closed loop, wherever "S" is in *)
(* the grid (first and last column and row included), max_maze_distance    *)
(* ends with a route that starts at "S", moves between adjacent tiles      *)
(* joined by pipes, visits every loop tile once and ends at "S", and       *)
(* returns half the loop length rounded up.                                *)
C26_RouteAroundLoop ==
    call = "max_maze_distance" =>
        /\ pc # "raised"
        /\ pc = "return" =>
               /\ Len(maze_route) = Cardinality(loop_tiles) + 1
               /\ maze_route[1] = start_tile
               /\ maze_route[Len(maze_route)] = start_tile
               /\ { maze_route[k] : k \in 1..(Len(maze_route) - 1) } = loop_tiles
               /\ \A k \in 1..(Len(maze_route) - 1) :
                      joined(maze_route[k], maze_route[k + 1])
               /\ distance = (Cardinality(loop_tiles) + 1) \div 2

-----------------------------------------------------------------------------
(* Day 11: filling against calculating (SpecGalaxy) *)

\* the total the calculating function returns for the image and the factor
calculated_total(image, factor) ==
    combinations_loop(expanded_galaxy_dict(image, factor - 1), 1, 2, 0)

\* some two galaxies of the image have a galaxy-free row and a galaxy-free
\* column strictly between them
gap_between_galaxies ==
    LET galaxies == find_galaxies(lines)
        points == expansion_points(lines)
    IN \E a, b \in 1..Len(galaxies) :
           /\ \E k \in 1..Len(points[1]) :
                  galaxies[a][1] < points[1][k] /\ points[1][k] < galaxies[b][1]
           /\ \E k \in 1..Len(points[2]) :
                  \/ galaxies[a][2] < points[2][k] /\ points[2][k] < galaxies[b][2]
                  \/ galaxies[b][2] < points[2][k] /\ points[2][k] < galaxies[a][2]

(* C27: for every non-empty rectangular image, the total returned by      *)
(* total_galaxy_distances_calculated_expansions with expansion_factor 2   *)
(* equals the total returned by total_galaxy_distances_fill_expansions.   *)
C27_CalculatedEqualsFilled ==
    pc = "return" =>
        /\ (call = "total_galaxy_distances_calculated_expansions"
               /\ expansion_factor = 2 - 1)
           => total = total_galaxy_distances_fill_expansions(lines)
        /\ call = "total_galaxy_distances_fill_expansions"
           => total = calculated_total(lines, 2)

C27_Witness ==
    /\ pc = "return"
    /\ call = "total_galaxy_distances_calculated_expansions"
    /\ expansion_factor = 2 - 1
    /\ gap_between_galaxies
    /\ total = total_galaxy_distances_fill_expansions(lines)
    /\ total > 0

====
